---- MODULE Spec2Model ----
(***************************************************************************)
(* quickhull3: the incremental 3D convex hull of rbxts-mathcat             *)
(* (src/unnamed/part_001), as a state machine.                             *)
(*                                                                         *)
(* Numbers.  The inputs of the model are lattice points, so every          *)
(* coordinate, cross product and dot product is an integer and is          *)
(* computed exactly.  A value the code obtains by dividing by the length   *)
(* of a normal is kept as a scalar record                                  *)
(*     [num |-> a, den2 |-> d, eps |-> e]  =  a / sqrt(d) + e * epsilon    *)
(* where epsilon stands for Number.EPSILON (2^-52), a positive quantity    *)
(* smaller than every positive value a / sqrt(d) the bounded lattice can   *)
(* produce.  Scalars are compared lexicographically: first a / sqrt(d)     *)
(* (by sign and by cross-multiplied squares), then e.                      *)
(***************************************************************************)
EXTENDS Integers, Sequences, FiniteSets, TLC

\* ------------------------------------------------------------------ bounds

\* largest number of points of an input drawn from Pool
MaxPts == 5
\* largest number of interior points appended to the cube corners
MaxInterior == 1

\* ------------------------------------------------------- program constants

VISIBLE == 0
DELETED == 1
\* an absent reference (TypeScript undefined) to a vertex or a face
Undefined == -1
\* an absent reference to a half-edge; a half-edge is <<face, k>>, k in 0..2
UndefinedEdge == <<Undefined, Undefined>>

\* ---------------------------------------------------------------- scalars

Scalar(a, d) == [num |-> a, den2 |-> d, eps |-> 0]
Whole(a) == [num |-> a, den2 |-> 1, eps |-> 0]
\* k * Number.EPSILON
Epsilons(k) == [num |-> 0, den2 |-> 1, eps |-> k]

Sign(x) == IF x > 0 THEN 1 ELSE IF x < 0 THEN -1 ELSE 0

\* sign of a.num / sqrt(a.den2) - b.num / sqrt(b.den2)
CmpStd(a, b) ==
    IF a.num >= 0 /\ b.num <= 0 THEN (IF a.num > 0 \/ b.num < 0 THEN 1 ELSE 0)
    ELSE IF a.num <= 0 /\ b.num >= 0 THEN -1
    ELSE IF a.num > 0
         THEN Sign(a.num * a.num * b.den2 - b.num * b.num * a.den2)
         ELSE Sign(b.num * b.num * a.den2 - a.num * a.num * b.den2)

\* faulty variant of Gt: a >= b
Gt_OrEqual(a, b) ==
    LET c == CmpStd(a, b) IN c > 0 \/ (c = 0 /\ a.eps >= b.eps)

\* a > b
Gt(a, b) ==
    LET c == CmpStd(a, b) IN c > 0 \/ (c = 0 /\ a.eps > b.eps)

\* a < b
Lt(a, b) == Gt(b, a)

\* k * a for an integer k >= 0
Times(k, a) == [num |-> k * a.num, den2 |-> a.den2, eps |-> k * a.eps]

\* math.abs
Abs(a) == [a EXCEPT !.num = IF a.num < 0 THEN -a.num ELSE a.num]

AbsInt(x) == IF x < 0 THEN -x ELSE x
MaxInt(x, y) == IF x > y THEN x ELSE y

\* ------------------------------------------------------- geometry kernel

\* point i (0-based) of the flat coordinate array
Point(points, i) == <<points[3 * i + 1], points[3 * i + 2], points[3 * i + 3]>>

Sub(a, b) == <<a[1] - b[1], a[2] - b[2], a[3] - b[3]>>
Add(a, b) == <<a[1] + b[1], a[2] + b[2], a[3] + b[3]>>
Dot(a, b) == a[1] * b[1] + a[2] * b[2] + a[3] * b[3]
Cross(a, b) ==
    <<a[2] * b[3] - a[3] * b[2], a[3] * b[1] - a[1] * b[3], a[1] * b[2] - a[2] * b[1]>>

\* computePlane: the unit normal of the plane through v0, v1, v2 is
\* normal / sqrt(len2); offset is -(normal . p0).  A zero cross product
\* (len < EPSILON) gives the normal (0, 0, 1) and the offset 0.
computePlane(points, v0, v1, v2) ==
    LET p0 == Point(points, v0)
        n == Cross(Sub(Point(points, v1), p0), Sub(Point(points, v2), p0))
    IN  IF Dot(n, n) = 0
        THEN [normal |-> <<0, 0, 1>>, len2 |-> 1, offset |-> 0]
        ELSE [normal |-> n, len2 |-> Dot(n, n), offset |-> -Dot(n, p0)]

\* faulty variant of distanceToPlane: the sign is turned round
distanceToPlane_Negated(points, idx, plane) ==
    Scalar(0 - (Dot(plane.normal, Point(points, idx)) + plane.offset), plane.len2)

\* distanceToPlane: normal . p + offset
distanceToPlane(points, idx, plane) ==
    Scalar(Dot(plane.normal, Point(points, idx)) + plane.offset, plane.len2)

\* distanceToLineSquared, as the rational num / den
distanceToLineSquared(points, idx, v0, v1) ==
    LET a == Point(points, v0)
        ap == Sub(Point(points, idx), a)
        ab == Sub(Point(points, v1), a)
        c == Cross(ap, ab)
    IN  IF Dot(ab, ab) = 0
        THEN [num |-> Dot(ap, ap), den |-> 1]
        ELSE [num |-> Dot(c, c), den |-> Dot(ab, ab)]

\* a > b for two rationals with positive denominators
RatGt(a, b) == a.num * b.den > b.num * a.den

\* ------------------------------------------------------------ vertex nodes

createVertexNode(index) ==
    [index |-> index, prev |-> Undefined, next |-> Undefined, face |-> Undefined]

\* ------------------------------------------------------------ vertex lists
\* A list operation takes the vertex nodes and the list and returns both,
\* [vertices |-> ..., list |-> ...]; the assignments are applied in the order
\* of the source.

createVertexList == [head |-> Undefined, tail |-> Undefined]

vertexListIsEmpty(list) == list.head = Undefined

vertexListAppend(vertices, list, vertex) ==
    LET vs1 == IF list.head = Undefined
               THEN vertices
               ELSE [vertices EXCEPT ![list.tail].next = vertex]
        head1 == IF list.head = Undefined THEN vertex ELSE list.head
        vs2 == [vs1 EXCEPT ![vertex].prev = list.tail]
        vs3 == [vs2 EXCEPT ![vertex].next = Undefined]
    IN  [vertices |-> vs3, list |-> [head |-> head1, tail |-> vertex]]

\* the last node of the chain that starts at current
RECURSIVE ChainEnd(_, _)
ChainEnd(vertices, current) ==
    IF vertices[current].next # Undefined
    THEN ChainEnd(vertices, vertices[current].next)
    ELSE current

vertexListAppendChain(vertices, list, vertex) ==
    LET vs1 == IF list.head = Undefined
               THEN vertices
               ELSE [vertices EXCEPT ![list.tail].next = vertex]
        head1 == IF list.head = Undefined THEN vertex ELSE list.head
        vs2 == [vs1 EXCEPT ![vertex].prev = list.tail]
    IN  [vertices |-> vs2, list |-> [head |-> head1, tail |-> ChainEnd(vs2, vertex)]]

vertexListInsertBefore(vertices, list, target, vertex) ==
    LET vs1 == [vertices EXCEPT ![vertex].prev = vertices[target].prev]
        vs2 == [vs1 EXCEPT ![vertex].next = target]
        p == vs2[vertex].prev
        head1 == IF p = Undefined THEN vertex ELSE list.head
        vs3 == IF p = Undefined THEN vs2 ELSE [vs2 EXCEPT ![p].next = vertex]
        vs4 == [vs3 EXCEPT ![target].prev = vertex]
    IN  [vertices |-> vs4, list |-> [list EXCEPT !.head = head1]]

\* faulty variant of vertexListRemove: the tail of the list is not updated
vertexListRemove_KeepTail(vertices, list, vertex) ==
    LET p == vertices[vertex].prev
        l1 == IF p = Undefined THEN [list EXCEPT !.head = vertices[vertex].next] ELSE list
        vs1 == IF p = Undefined
               THEN vertices
               ELSE [vertices EXCEPT ![p].next = vertices[vertex].next]
        nx == vs1[vertex].next
        vs2 == IF nx = Undefined THEN vs1 ELSE [vs1 EXCEPT ![nx].prev = vs1[vertex].prev]
    IN  [vertices |-> vs2, list |-> l1]

vertexListRemove(vertices, list, vertex) ==
    LET p == vertices[vertex].prev
        l1 == IF p = Undefined THEN [list EXCEPT !.head = vertices[vertex].next] ELSE list
        vs1 == IF p = Undefined
               THEN vertices
               ELSE [vertices EXCEPT ![p].next = vertices[vertex].next]
        nx == vs1[vertex].next
        l2 == IF nx = Undefined THEN [l1 EXCEPT !.tail = vs1[vertex].prev] ELSE l1
        vs2 == IF nx = Undefined THEN vs1 ELSE [vs1 EXCEPT ![nx].prev = vs1[vertex].prev]
    IN  [vertices |-> vs2, list |-> l2]

vertexListRemoveSubList(vertices, list, a, b) ==
    LET p == vertices[a].prev
        l1 == IF p = Undefined THEN [list EXCEPT !.head = vertices[b].next] ELSE list
        vs1 == IF p = Undefined
               THEN vertices
               ELSE [vertices EXCEPT ![p].next = vertices[b].next]
        nx == vs1[b].next
        l2 == IF nx = Undefined THEN [l1 EXCEPT !.tail = vs1[a].prev] ELSE l1
        vs2 == IF nx = Undefined THEN vs1 ELSE [vs1 EXCEPT ![nx].prev = vs1[a].prev]
    IN  [vertices |-> vs2, list |-> l2]

\* -------------------------------------------------------------- half-edges
\* The three half-edges of face f are <<f, 0>>, <<f, 1>>, <<f, 2>>; the cycle
\* next/prev that faceCreate links is fixed, so next and prev are index
\* arithmetic.  faces[f].edges[k + 1] holds the head vertex and the twin.

createHalfEdge(vertex) == [vertex |-> vertex, twin |-> UndefinedEdge]

EdgeNext(e) == <<e[1], (e[2] + 1) % 3>>
EdgePrev(e) == <<e[1], (e[2] + 2) % 3>>
EdgeOf(faces, e) == faces[e[1]].edges[e[2] + 1]

halfEdgeHead(faces, e) == EdgeOf(faces, e).vertex
halfEdgeTail(faces, e) == EdgeOf(faces, EdgePrev(e)).vertex

\* faulty variant of halfEdgeSetTwin: twin.twin is not set
halfEdgeSetTwin_OneWay(faces, edge, twin) ==
    [faces EXCEPT ![edge[1]].edges[edge[2] + 1].twin = twin]

halfEdgeSetTwin(faces, edge, twin) ==
    LET f1 == [faces EXCEPT ![edge[1]].edges[edge[2] + 1].twin = twin]
    IN  [f1 EXCEPT ![twin[1]].edges[twin[2] + 1].twin = edge]

\* ------------------------------------------------------------------- faces
\* normal / sqrt(len2) is the unit normal (normal stays <<0, 0, 0>> when the
\* cross product is not longer than EPSILON), mid3 is 3 * midpoint, area2 is
\* 2 * area, constant is the plane constant as a scalar.

faceCreate(a, b, c) ==
    [normal |-> <<0, 0, 0>>, len2 |-> 1, mid3 |-> <<0, 0, 0>>, area2 |-> Whole(0),
     constant |-> Whole(0), outside |-> Undefined, mark |-> VISIBLE,
     edges |-> <<createHalfEdge(a), createHalfEdge(b), createHalfEdge(c)>>]

\* faceGetEdge(face, i) for i in -2..2
faceGetEdge(f, i) == <<f, (i + 3) % 3>>

faceCompute(face, points) ==
    LET Computed(n, len2, mid3) ==
            IF len2 > 0
            THEN [face EXCEPT !.normal = n, !.len2 = len2, !.mid3 = mid3,
                              !.area2 = Scalar(len2, len2),
                              !.constant = Scalar(Dot(n, mid3) \div 3, len2)]
            ELSE [face EXCEPT !.mid3 = mid3,
                              !.area2 = Scalar(0, 1),
                              !.constant = Scalar(Dot(face.normal, mid3) \div 3, face.len2)]
        WithNormal(n, mid3) == Computed(n, Dot(n, n), mid3)
        OfTriangle(a, b, c) == WithNormal(Cross(Sub(b, a), Sub(c, a)), Add(Add(a, b), c))
    IN  OfTriangle(Point(points, face.edges[3].vertex),
                   Point(points, face.edges[1].vertex),
                   Point(points, face.edges[2].vertex))

faceDistanceToPoint(face, points, vertexIndex) ==
    Scalar(Dot(face.normal, Point(points, vertexIndex)) - face.constant.num, face.len2)

\* -------------------------------------------------------------- hull state

\* number of vertex nodes createHullState makes for a coordinate array
NumPoints(points) == Len(points) \div 3

createHullState(points, n) ==
    [points |-> points,
     tolerance |-> Whole(-1),
     faces |-> <<>>,
     newFaces |-> <<>>,
     assigned |-> createVertexList,
     unassigned |-> createVertexList,
     vertices |-> [i \in 0 .. n - 1 |-> createVertexNode(i)]]

\* the state before quickhull3 has created one
NoState == createHullState(<<>>, 0)

RECURSIVE TriangleIndicesFrom(_, _)
TriangleIndicesFrom(faces, f) ==
    IF f > Len(faces) THEN <<>>
    ELSE (IF faces[f].mark = VISIBLE
          THEN <<faces[f].edges[1].vertex, faces[f].edges[2].vertex, faces[f].edges[3].vertex>>
          ELSE <<>>) \o TriangleIndicesFrom(faces, f + 1)

\* faulty variant of getTriangleIndices: edge.next.vertex is pushed in place of
\* edge.prev.vertex
RECURSIVE TriangleIndicesNextTwice(_, _)
TriangleIndicesNextTwice(faces, f) ==
    IF f > Len(faces) THEN <<>>
    ELSE (IF faces[f].mark = VISIBLE
          THEN <<faces[f].edges[1].vertex, faces[f].edges[2].vertex, faces[f].edges[2].vertex>>
          ELSE <<>>) \o TriangleIndicesNextTwice(faces, f + 1)

getTriangleIndices_NextTwice(state) == TriangleIndicesNextTwice(state.faces, 1)

\* faulty variant of getTriangleIndices: the loop over the faces is off by
\* one and misses the first face
getTriangleIndices_FromSecond(state) == TriangleIndicesFrom(state.faces, 2)

getTriangleIndices(state) == TriangleIndicesFrom(state.faces, 1)

reindexFaces(state) ==
    [state EXCEPT !.faces = SelectSeq(state.faces, LAMBDA face : face.mark = VISIBLE)]

\* ----------------------------------------------------------- initial hull

\* one axis j (1..3) of computeExtremes, vertices i .. n - 1 still to scan
RECURSIVE ExtremeScan(_, _, _, _)
ExtremeScan(points, j, i, acc) ==
    IF i >= NumPoints(points) THEN acc
    ELSE LET val == points[3 * i + j]
             a1 == IF val < acc.min THEN [acc EXCEPT !.min = val, !.minVertex = i] ELSE acc
             a2 == IF val > a1.max THEN [a1 EXCEPT !.max = val, !.maxVertex = i] ELSE a1
         IN  ExtremeScan(points, j, i + 1, a2)

computeExtremes(points) ==
    LET ext == [j \in 1 .. 3 |->
                  ExtremeScan(points, j, 0,
                      [min |-> points[j], max |-> points[j], minVertex |-> 0, maxVertex |-> 0])]
    IN  [min |-> [j \in 1 .. 3 |-> ext[j].minVertex],
         max |-> [j \in 1 .. 3 |-> ext[j].maxVertex],
         tolerance |-> Epsilons(3 * (MaxInt(AbsInt(ext[1].min), AbsInt(ext[1].max))
                                   + MaxInt(AbsInt(ext[2].min), AbsInt(ext[2].max))
                                   + MaxInt(AbsInt(ext[3].min), AbsInt(ext[3].max))))]

\* step 1: the axis with the greatest separation of its extremes
RECURSIVE WidestAxis(_, _, _, _)
WidestAxis(points, extremes, i, acc) ==
    IF i > 3 THEN acc.index
    ELSE LET distance == points[3 * extremes.min[i] + i] - points[3 * extremes.max[i] + i]
         IN  WidestAxis(points, extremes, i + 1,
                 IF AbsInt(distance) > acc.maxDistance
                 THEN [maxDistance |-> AbsInt(distance), index |-> i]
                 ELSE acc)

\* faulty variant of FarthestFromLine: dist >= maxDistance accepts a vertex on the line
RECURSIVE FarthestFromLine_OnLine(_, _, _, _, _)
FarthestFromLine_OnLine(points, v0, v1, i, acc) ==
    IF i >= NumPoints(points) THEN acc.v2
    ELSE LET dist == distanceToLineSquared(points, i, v0, v1)
         IN  FarthestFromLine_OnLine(points, v0, v1, i + 1,
                 IF i # v0 /\ i # v1 /\ ~RatGt(acc.maxDistance, dist)
                 THEN [maxDistance |-> dist, v2 |-> i]
                 ELSE acc)

\* step 2: the vertex farthest from the line v0-v1, Undefined when none is off it
RECURSIVE FarthestFromLine(_, _, _, _, _)
FarthestFromLine(points, v0, v1, i, acc) ==
    IF i >= NumPoints(points) THEN acc.v2
    ELSE LET dist == distanceToLineSquared(points, i, v0, v1)
         IN  FarthestFromLine(points, v0, v1, i + 1,
                 IF i # v0 /\ i # v1 /\ RatGt(dist, acc.maxDistance)
                 THEN [maxDistance |-> dist, v2 |-> i]
                 ELSE acc)

\* faulty variant of FarthestFromPlane: the signed distance is compared, math.abs is
\* forgotten
RECURSIVE FarthestFromPlane_Signed(_, _, _, _, _, _, _)
FarthestFromPlane_Signed(points, plane, v0, v1, v2, i, acc) ==
    IF i >= NumPoints(points) THEN acc.v3
    ELSE LET dist == distanceToPlane(points, i, plane)
         IN  FarthestFromPlane_Signed(points, plane, v0, v1, v2, i + 1,
                 IF i # v0 /\ i # v1 /\ i # v2 /\ Gt(dist, acc.maxDistance)
                 THEN [maxDistance |-> dist, v3 |-> i]
                 ELSE acc)

\* step 3: the vertex farthest from the plane v0-v1-v2, maxDistance starting at -1
RECURSIVE FarthestFromPlane(_, _, _, _, _, _, _)
FarthestFromPlane(points, plane, v0, v1, v2, i, acc) ==
    IF i >= NumPoints(points) THEN acc.v3
    ELSE LET dist == Abs(distanceToPlane(points, i, plane))
         IN  FarthestFromPlane(points, plane, v0, v1, v2, i + 1,
                 IF i # v0 /\ i # v1 /\ i # v2 /\ Gt(dist, acc.maxDistance)
                 THEN [maxDistance |-> dist, v3 |-> i]
                 ELSE acc)

\* faulty variant of SeedTwins: the side faces are not linked to each other
RECURSIVE SeedTwins_NoSideTwins(_, _, _)
SeedTwins_NoSideTwins(faces, i, outward) ==
    IF i >= 3 THEN faces
    ELSE LET j == (i + 1) % 3
             f1 == IF outward
                   THEN halfEdgeSetTwin(faces, faceGetEdge(i + 2, 2), faceGetEdge(1, j))
                   ELSE halfEdgeSetTwin(faces, faceGetEdge(i + 2, 2), faceGetEdge(1, (3 - i) % 3))
         IN  SeedTwins_NoSideTwins(f1, i + 1, outward)

\* the twin links of the seed tetrahedron; faces[1] is the base face
RECURSIVE SeedTwins(_, _, _)
SeedTwins(faces, i, outward) ==
    IF i >= 3 THEN faces
    ELSE LET j == (i + 1) % 3
             f1 == IF outward
                   THEN halfEdgeSetTwin(faces, faceGetEdge(i + 2, 2), faceGetEdge(1, j))
                   ELSE halfEdgeSetTwin(faces, faceGetEdge(i + 2, 2), faceGetEdge(1, (3 - i) % 3))
             f2 == IF outward
                   THEN halfEdgeSetTwin(f1, faceGetEdge(i + 2, 1), faceGetEdge(j + 2, 0))
                   ELSE halfEdgeSetTwin(f1, faceGetEdge(i + 2, 0), faceGetEdge(j + 2, 1))
         IN  SeedTwins(f2, i + 1, outward)

\* faulty variant of addVertexToFace: the vertex is appended to the assigned list
\* even when the face has outside vertices already
addVertexToFace_Append(state, vertex, face) ==
    LET Added(r) == [state EXCEPT !.vertices = r.vertices, !.assigned = r.list,
                                  !.faces[face].outside = vertex]
    IN  Added(vertexListAppend([state.vertices EXCEPT ![vertex].face = face],
                               state.assigned, vertex))

addVertexToFace(state, vertex, face) ==
    LET vs1 == [state.vertices EXCEPT ![vertex].face = face]
        Added(r) == [state EXCEPT !.vertices = r.vertices, !.assigned = r.list,
                                  !.faces[face].outside = vertex]
    IN  Added(IF state.faces[face].outside = Undefined
              THEN vertexListAppend(vs1, state.assigned, vertex)
              ELSE vertexListInsertBefore(vs1, state.assigned, state.faces[face].outside,
                                          vertex))

\* faulty variant of FarthestFace: the comparison is turned round (distance <
\* maxDistance)
RECURSIVE FarthestFace_Flipped(_, _, _, _)
FarthestFace_Flipped(state, vertex, f, acc) ==
    IF f > Len(state.faces) THEN acc.maxFace
    ELSE LET distance == faceDistanceToPoint(state.faces[f], state.points, vertex)
         IN  FarthestFace_Flipped(state, vertex, f + 1,
                 IF Lt(distance, acc.maxDistance)
                 THEN [maxDistance |-> distance, maxFace |-> f]
                 ELSE acc)

\* faulty variant of FarthestFace: on a tie the later face wins (distance >=
\* maxDistance)
RECURSIVE FarthestFace_LastOnTies(_, _, _, _)
FarthestFace_LastOnTies(state, vertex, f, acc) ==
    IF f > Len(state.faces) THEN acc.maxFace
    ELSE LET distance == faceDistanceToPoint(state.faces[f], state.points, vertex)
         IN  FarthestFace_LastOnTies(state, vertex, f + 1,
                 IF ~Lt(distance, acc.maxDistance)
                 THEN [maxDistance |-> distance, maxFace |-> f]
                 ELSE acc)

\* the face of state.faces[f ..] farthest from the vertex, beyond acc.maxDistance
RECURSIVE FarthestFace(_, _, _, _)
FarthestFace(state, vertex, f, acc) ==
    IF f > Len(state.faces) THEN acc.maxFace
    ELSE LET distance == faceDistanceToPoint(state.faces[f], state.points, vertex)
         IN  FarthestFace(state, vertex, f + 1,
                 IF Gt(distance, acc.maxDistance)
                 THEN [maxDistance |-> distance, maxFace |-> f]
                 ELSE acc)

\* the assignment of the remaining vertices to the seed faces
RECURSIVE AssignRemaining(_, _, _)
AssignRemaining(state, seed, i) ==
    IF i >= NumPoints(state.points) THEN state
    ELSE IF i \in seed THEN AssignRemaining(state, seed, i + 1)
    ELSE LET maxFace == FarthestFace(state, i, 1,
                            [maxDistance |-> state.tolerance, maxFace |-> Undefined])
         IN  AssignRemaining(IF maxFace # Undefined THEN addVertexToFace(state, i, maxFace)
                             ELSE state,
                             seed, i + 1)

computeInitialHull(state0) ==
    LET points == state0.points
        Computed(faces) ==
            <<faceCompute(faces[1], points), faceCompute(faces[2], points),
              faceCompute(faces[3], points), faceCompute(faces[4], points)>>
        \* the four faces, twinned and computed, and the remaining vertices assigned
        Tetrahedron(state, v0, v1, v2, v3, outward) ==
            AssignRemaining(
                [state EXCEPT !.faces =
                    Computed(SeedTwins(IF outward
                                       THEN <<faceCreate(v0, v1, v2), faceCreate(v3, v1, v0),
                                              faceCreate(v3, v2, v1), faceCreate(v3, v0, v2)>>
                                       ELSE <<faceCreate(v0, v2, v1), faceCreate(v3, v0, v1),
                                              faceCreate(v3, v1, v2), faceCreate(v3, v2, v0)>>,
                                       0, outward))],
                {v0, v1, v2, v3}, 0)
        \* step 3 done
        WithV3(state, v0, v1, v2, plane, v3) ==
            IF v3 = Undefined THEN state
            ELSE Tetrahedron(state, v0, v1, v2, v3,
                             Lt(distanceToPlane(points, v3, plane), Whole(0)))
        WithPlane(state, v0, v1, v2, plane) ==
            WithV3(state, v0, v1, v2, plane,
                   FarthestFromPlane(points, plane, v0, v1, v2, 0,
                       [maxDistance |-> Whole(-1), v3 |-> Undefined]))
        \* step 2 done
        WithV2(state, v0, v1, v2) ==
            IF v2 = Undefined THEN state
            ELSE WithPlane(state, v0, v1, v2, computePlane(points, v0, v1, v2))
        \* step 1 done
        WithLine(state, v0, v1) ==
            WithV2(state, v0, v1,
                   FarthestFromLine(points, v0, v1, 0,
                       [maxDistance |-> [num |-> 0, den |-> 1], v2 |-> Undefined]))
        WithAxis(state, extremes, index) ==
            WithLine(state, extremes.min[index], extremes.max[index])
        WithExtremes(extremes) ==
            WithAxis([state0 EXCEPT !.tolerance = extremes.tolerance], extremes,
                     WidestAxis(points, extremes, 1, [maxDistance |-> 0, index |-> 1]))
    IN  WithExtremes(computeExtremes(points))

\* ------------------------------------------------------- conflict lists

\* faulty variant of removeVertexFromFace: the vertex is not unlinked
removeVertexFromFace_Keep(state, vertex, face) == state

\* faulty variant of removeVertexFromFace: the outside pointer is cleared
\* whatever follows the vertex
removeVertexFromFace_ClearOutside(state, vertex, face) ==
    LET faces1 == IF vertex = state.faces[face].outside
                  THEN [state.faces EXCEPT ![face].outside = Undefined]
                  ELSE state.faces
        Removed(r) == [state EXCEPT !.faces = faces1, !.vertices = r.vertices,
                                    !.assigned = r.list]
    IN  Removed(vertexListRemove(state.vertices, state.assigned, vertex))

removeVertexFromFace(state, vertex, face) ==
    LET nx == state.vertices[vertex].next
        faces1 == IF vertex = state.faces[face].outside
                  THEN (IF nx # Undefined /\ state.vertices[nx].face = face
                        THEN [state.faces EXCEPT ![face].outside = nx]
                        ELSE [state.faces EXCEPT ![face].outside = Undefined])
                  ELSE state.faces
        Removed(r) == [state EXCEPT !.faces = faces1, !.vertices = r.vertices,
                                    !.assigned = r.list]
    IN  Removed(vertexListRemove(state.vertices, state.assigned, vertex))

\* the last vertex of the run of the face's vertices that starts at end_
RECURSIVE RunEnd(_, _, _)
RunEnd(vertices, face, end_) ==
    LET nx == vertices[end_].next
    IN  IF nx # Undefined /\ vertices[nx].face = face THEN RunEnd(vertices, face, nx) ELSE end_

\* removeAllVerticesFromFace: [state, start], start the head of the removed chain
removeAllVerticesFromFace(state, face) ==
    LET start == state.faces[face].outside
        Removed(end_, r) ==
            [state EXCEPT !.vertices = [r.vertices EXCEPT ![start].prev = Undefined,
                                                          ![end_].next = Undefined],
                          !.assigned = r.list,
                          !.faces[face].outside = Undefined]
        Run(end_) ==
            Removed(end_, vertexListRemoveSubList(state.vertices, state.assigned, start, end_))
    IN  IF start # Undefined
        THEN [state |-> Run(RunEnd(state.vertices, face, start)), start |-> start]
        ELSE [state |-> state, start |-> Undefined]

\* faulty variant of deleteFaceVertices: the outside vertices stay with the face
deleteFaceVertices_Keep(state, face) == state

\* deleteFaceVertices(state, face), the call without an absorbing face
deleteFaceVertices(state, face) ==
    LET Appended(st, r) == [st EXCEPT !.vertices = r.vertices, !.unassigned = r.list]
        Deleted(removed) ==
            IF removed.start # Undefined
            THEN Appended(removed.state,
                          vertexListAppendChain(removed.state.vertices,
                                                removed.state.unassigned, removed.start))
            ELSE removed.state
    IN  Deleted(removeAllVerticesFromFace(state, face))

\* faulty variant of ResolveFace: the scan never stops early, the farthest
\* face wins
RECURSIVE ResolveFace_NoBreak(_, _, _, _, _)
ResolveFace_NoBreak(state, newFaces, vertex, k, acc) ==
    IF k > Len(newFaces) THEN acc.maxFace
    ELSE IF state.faces[newFaces[k]].mark = VISIBLE
    THEN LET distance == faceDistanceToPoint(state.faces[newFaces[k]], state.points, vertex)
         IN  ResolveFace_NoBreak(state, newFaces, vertex, k + 1,
                                 IF Gt(distance, acc.maxDistance)
                                 THEN [maxDistance |-> distance, maxFace |-> newFaces[k]]
                                 ELSE acc)
    ELSE ResolveFace_NoBreak(state, newFaces, vertex, k + 1, acc)

\* the face of newFaces[k ..] a vertex is re-assigned to; the scan stops once
\* maxDistance exceeds 1000 * tolerance
RECURSIVE ResolveFace(_, _, _, _, _)
ResolveFace(state, newFaces, vertex, k, acc) ==
    IF k > Len(newFaces) THEN acc.maxFace
    ELSE IF state.faces[newFaces[k]].mark = VISIBLE
    THEN LET distance == faceDistanceToPoint(state.faces[newFaces[k]], state.points, vertex)
             a1 == IF Gt(distance, acc.maxDistance)
                   THEN [maxDistance |-> distance, maxFace |-> newFaces[k]]
                   ELSE acc
         IN  IF Gt(a1.maxDistance, Times(1000, state.tolerance))
             THEN a1.maxFace
             ELSE ResolveFace(state, newFaces, vertex, k + 1, a1)
    ELSE ResolveFace(state, newFaces, vertex, k + 1, acc)

RECURSIVE ResolveFrom(_, _, _)
ResolveFrom(state, newFaces, vertex) ==
    IF vertex = Undefined THEN state
    ELSE LET nextVertex == state.vertices[vertex].next
             maxFace == ResolveFace(state, newFaces, vertex, 1,
                            [maxDistance |-> state.tolerance, maxFace |-> Undefined])
         IN  ResolveFrom(IF maxFace # Undefined THEN addVertexToFace(state, vertex, maxFace)
                         ELSE state,
                         newFaces, nextVertex)

\* faulty variant of resolveUnassignedPoints: the orphaned vertices are not re-assigned
resolveUnassignedPoints_Drop(state, newFaces) == state

resolveUnassignedPoints(state, newFaces) ==
    IF vertexListIsEmpty(state.unassigned) THEN state
    ELSE ResolveFrom(state, newFaces, state.unassigned.head)

\* faulty variant of FarthestOutside: on a tie the later vertex wins (distance >=
\* maxDistance)
RECURSIVE FarthestOutside_LastOnTies(_, _, _, _)
FarthestOutside_LastOnTies(state, eyeFace, vertex, acc) ==
    IF vertex # Undefined /\ state.vertices[vertex].face = eyeFace
    THEN LET distance == faceDistanceToPoint(state.faces[eyeFace], state.points, vertex)
         IN  FarthestOutside_LastOnTies(state, eyeFace, state.vertices[vertex].next,
                 IF ~Lt(distance, acc.maxDistance)
                 THEN [maxDistance |-> distance, eyeVertex |-> vertex]
                 ELSE acc)
    ELSE acc.eyeVertex

\* the farthest vertex of the run of eyeFace's vertices that starts at vertex
RECURSIVE FarthestOutside(_, _, _, _)
FarthestOutside(state, eyeFace, vertex, acc) ==
    IF vertex # Undefined /\ state.vertices[vertex].face = eyeFace
    THEN LET distance == faceDistanceToPoint(state.faces[eyeFace], state.points, vertex)
         IN  FarthestOutside(state, eyeFace, state.vertices[vertex].next,
                 IF Gt(distance, acc.maxDistance)
                 THEN [maxDistance |-> distance, eyeVertex |-> vertex]
                 ELSE acc)
    ELSE acc.eyeVertex

nextVertexToAdd(state) ==
    IF vertexListIsEmpty(state.assigned) THEN Undefined
    ELSE LET eyeFace == state.vertices[state.assigned.head].face
         IN  FarthestOutside(state, eyeFace, state.faces[eyeFace].outside,
                 [maxDistance |-> Whole(0), eyeVertex |-> Undefined])

\* ----------------------------------------------------------------- horizon
\* computeHorizon works on a context [state, horizon, raised]; raised names
\* the dereference of an absent reference that ends the run, "" while none.

RECURSIVE computeHorizon(_, _, _, _)
RECURSIVE HorizonEdges(_, _, _, _)

\* faulty variant of HorizonEdges: a visible neighbour is not entered, its edge is
\* taken for a horizon edge
RECURSIVE HorizonEdges_NoRecursion(_, _, _, _)
HorizonEdges_NoRecursion(ctx, eyePoint, edge, left) ==
    IF left = 0 \/ ctx.raised # "" THEN ctx
    ELSE LET twinEdge == EdgeOf(ctx.state.faces, edge).twin
             oppositeFace == twinEdge[1]
             c1 == IF twinEdge = UndefinedEdge
                   THEN [ctx EXCEPT !.raised = "computeHorizon: twin is undefined"]
                   ELSE IF ctx.state.faces[oppositeFace].mark = VISIBLE
                   THEN [ctx EXCEPT !.horizon = Append(ctx.horizon, edge)]
                   ELSE ctx
         IN  HorizonEdges_NoRecursion(c1, eyePoint, EdgeNext(edge), left - 1)

\* faulty variant of HorizonEdges: every VISIBLE neighbour is entered, whether
\* it sees the eye point or not
RECURSIVE HorizonEdges_EnterAll(_, _, _, _)
HorizonEdges_EnterAll(ctx, eyePoint, edge, left) ==
    IF left = 0 \/ ctx.raised # "" THEN ctx
    ELSE LET twinEdge == EdgeOf(ctx.state.faces, edge).twin
             oppositeFace == twinEdge[1]
             c1 == IF twinEdge = UndefinedEdge
                   THEN [ctx EXCEPT !.raised = "computeHorizon: twin is undefined"]
                   ELSE IF ctx.state.faces[oppositeFace].mark = VISIBLE
                   THEN computeHorizon(ctx, eyePoint, twinEdge, oppositeFace)
                   ELSE ctx
         IN  HorizonEdges_EnterAll(c1, eyePoint, EdgeNext(edge), left - 1)

\* faulty variant of HorizonEdges: the twin of the edge is pushed to the horizon
RECURSIVE HorizonEdges_PushTwin(_, _, _, _)
HorizonEdges_PushTwin(ctx, eyePoint, edge, left) ==
    IF left = 0 \/ ctx.raised # "" THEN ctx
    ELSE LET twinEdge == EdgeOf(ctx.state.faces, edge).twin
             oppositeFace == twinEdge[1]
             c1 == IF twinEdge = UndefinedEdge
                   THEN [ctx EXCEPT !.raised = "computeHorizon: twin is undefined"]
                   ELSE IF ctx.state.faces[oppositeFace].mark = VISIBLE
                   THEN (IF Gt(faceDistanceToPoint(ctx.state.faces[oppositeFace],
                                                   ctx.state.points, eyePoint),
                               ctx.state.tolerance)
                         THEN computeHorizon(ctx, eyePoint, twinEdge, oppositeFace)
                         ELSE [ctx EXCEPT !.horizon = Append(ctx.horizon, twinEdge)])
                   ELSE ctx
         IN  HorizonEdges_PushTwin(c1, eyePoint, EdgeNext(edge), left - 1)

\* the do-while loop of computeHorizon over the three edges of a face: edge is
\* the current edge, left the number of edges still to visit
HorizonEdges(ctx, eyePoint, edge, left) ==
    IF left = 0 \/ ctx.raised # "" THEN ctx
    ELSE LET twinEdge == EdgeOf(ctx.state.faces, edge).twin
             oppositeFace == twinEdge[1]
             c1 == IF twinEdge = UndefinedEdge
                   THEN [ctx EXCEPT !.raised = "computeHorizon: twin is undefined"]
                   ELSE IF ctx.state.faces[oppositeFace].mark = VISIBLE
                   THEN (IF Gt(faceDistanceToPoint(ctx.state.faces[oppositeFace],
                                                   ctx.state.points, eyePoint),
                               ctx.state.tolerance)
                         THEN computeHorizon(ctx, eyePoint, twinEdge, oppositeFace)
                         ELSE [ctx EXCEPT !.horizon = Append(ctx.horizon, edge)])
                   ELSE ctx
         IN  HorizonEdges(c1, eyePoint, EdgeNext(edge), left - 1)

\* the context also keeps a record of the calls: entered is the faces the
\* calls were made on, in order, depth the number of calls that have not
\* returned, deepest the largest depth so far
computeHorizon(ctx, eyePoint, crossEdge, face) ==
    LET st1 == deleteFaceVertices(ctx.state, face)
        st2 == [st1 EXCEPT !.faces[face].mark = DELETED]
        edge == IF crossEdge = UndefinedEdge THEN faceGetEdge(face, 0) ELSE EdgeNext(crossEdge)
        Entered == [ctx EXCEPT !.state = st2,
                               !.entered = Append(@, face),
                               !.depth = @ + 1,
                               !.deepest = IF ctx.depth + 1 > @ THEN ctx.depth + 1 ELSE @]
        Left(r) == [r EXCEPT !.depth = @ - 1]
    IN  Left(HorizonEdges(Entered, eyePoint, edge, 3))

\* ------------------------------------------------------------------- patch

\* faulty variant of addAdjoiningFace: the face is created as (eye, head, tail)
addAdjoiningFace_HeadFirst(state, eyeVertex, horizonEdge) ==
    LET Adjoined(faces1, f) ==
            [state |-> [state EXCEPT !.faces =
                           halfEdgeSetTwin(faces1, faceGetEdge(f, -1),
                                           EdgeOf(faces1, horizonEdge).twin)],
             sideEdge |-> faceGetEdge(f, 0)]
        Created(face) == Adjoined(Append(state.faces, face), Len(state.faces) + 1)
    IN  Created(faceCompute(faceCreate(eyeVertex, halfEdgeHead(state.faces, horizonEdge),
                                       halfEdgeTail(state.faces, horizonEdge)),
                            state.points))

\* addAdjoiningFace: [state, sideEdge]
addAdjoiningFace(state, eyeVertex, horizonEdge) ==
    LET Adjoined(faces1, f) ==
            [state |-> [state EXCEPT !.faces =
                           halfEdgeSetTwin(faces1, faceGetEdge(f, -1),
                                           EdgeOf(faces1, horizonEdge).twin)],
             sideEdge |-> faceGetEdge(f, 0)]
        Created(face) == Adjoined(Append(state.faces, face), Len(state.faces) + 1)
    IN  Created(faceCompute(faceCreate(eyeVertex, halfEdgeTail(state.faces, horizonEdge),
                                       halfEdgeHead(state.faces, horizonEdge)),
                            state.points))

\* the loop of addNewFaces over horizon[k ..]
RECURSIVE AdjoinFrom(_, _, _, _, _, _)
AdjoinFrom(state, eyeVertex, horizon, k, firstSideEdge, previousSideEdge) ==
    LET Linked(st, sideEdge) ==
            AdjoinFrom([st EXCEPT !.faces = IF firstSideEdge = UndefinedEdge
                                            THEN st.faces
                                            ELSE halfEdgeSetTwin(st.faces, EdgeNext(sideEdge),
                                                                 previousSideEdge),
                                  !.newFaces = Append(st.newFaces, sideEdge[1])],
                       eyeVertex, horizon, k + 1,
                       IF firstSideEdge = UndefinedEdge THEN sideEdge ELSE firstSideEdge,
                       sideEdge)
        Adjoined(r) == Linked(r.state, r.sideEdge)
    IN  IF k > Len(horizon)
        THEN [state |-> state, firstSideEdge |-> firstSideEdge,
              previousSideEdge |-> previousSideEdge]
        ELSE Adjoined(addAdjoiningFace(state, eyeVertex, horizon[k]))

\* faulty variant of addNewFaces: the loop starts at the second horizon edge
addNewFaces_SkipFirst(ctx, eyeVertex) ==
    LET Closed(r) ==
            IF r.firstSideEdge = UndefinedEdge
            THEN [ctx EXCEPT !.state = r.state,
                             !.raised = "addNewFaces: firstSideEdge is undefined"]
            ELSE [ctx EXCEPT !.state =
                      [r.state EXCEPT !.faces =
                          halfEdgeSetTwin(r.state.faces, EdgeNext(r.firstSideEdge),
                                          r.previousSideEdge)]]
    IN  Closed(AdjoinFrom([ctx.state EXCEPT !.newFaces = <<>>], eyeVertex, ctx.horizon, 2,
                          UndefinedEdge, UndefinedEdge))

\* addNewFaces on a context [state, horizon, raised]
addNewFaces(ctx, eyeVertex) ==
    LET Closed(r) ==
            IF r.firstSideEdge = UndefinedEdge
            THEN [ctx EXCEPT !.state = r.state,
                             !.raised = "addNewFaces: firstSideEdge is undefined"]
            ELSE [ctx EXCEPT !.state =
                      [r.state EXCEPT !.faces =
                          halfEdgeSetTwin(r.state.faces, EdgeNext(r.firstSideEdge),
                                          r.previousSideEdge)]]
    IN  Closed(AdjoinFrom([ctx.state EXCEPT !.newFaces = <<>>], eyeVertex, ctx.horizon, 1,
                          UndefinedEdge, UndefinedEdge))

\* ----------------------------------------------------------- the whole run

\* addVertexToHull on a context [state, horizon, raised]
addVertexToHull(state, eyeVertex) ==
    LET eyeFace == state.vertices[eyeVertex].face
        Resolved(ctx) ==
            IF ctx.raised # "" THEN ctx
            ELSE [ctx EXCEPT !.state = resolveUnassignedPoints(ctx.state, ctx.state.newFaces)]
        Patched(ctx) ==
            IF ctx.raised # "" THEN ctx ELSE Resolved(addNewFaces(ctx, eyeVertex))
    IN  Patched(computeHorizon(
                    [state |-> removeVertexFromFace(
                                   [state EXCEPT !.unassigned = createVertexList],
                                   eyeVertex, eyeFace),
                     horizon |-> <<>>,
                     raised |-> "",
                     entered |-> <<>>, depth |-> 0, deepest |-> 0],
                    eyeVertex, UndefinedEdge, eyeFace))

\* the while loop of quickhull3, entered with the next eye vertex
RECURSIVE InsertionLoop(_, _)
InsertionLoop(state, eyeVertex) ==
    LET Added(ctx) ==
            IF ctx.raised # "" THEN ctx
            ELSE InsertionLoop(ctx.state, nextVertexToAdd(ctx.state))
    IN  IF eyeVertex = Undefined
        THEN [state |-> state, horizon |-> <<>>, raised |-> ""]
        ELSE Added(addVertexToHull(state, eyeVertex))

\* quickhull3 as a function of its argument: [result, raised]
quickhull3(pts) ==
    LET Returned(ctx) ==
            [result |-> IF ctx.raised # "" THEN <<>>
                        ELSE getTriangleIndices(reindexFaces(ctx.state)),
             raised |-> ctx.raised]
        Seeded(state) == Returned(InsertionLoop(state, nextVertexToAdd(state)))
    IN  IF 3 * 4 > Len(pts)
        THEN [result |-> <<>>, raised |-> ""]
        ELSE Seeded(computeInitialHull(createHullState(pts, NumPoints(pts))))

\* ------------------------------------------------------------------ inputs

\* lattice points the general inputs are drawn from: a collinear triple
\* (2,0,0) (2,1,0) (2,2,0), a square in the plane z = 0 and an apex off it
Pool ==
    {<<0, 0, 0>>, <<0, 0, 2>>, <<2, 1, 0>>, <<2, 2, 0>>, <<2, 0, 0>>, <<0, 2, 0>>}

\* the tetrahedron of the test "case: tetrahedron"
TestTetrahedron == {<<0, 1, 0>>, <<1, -1, 1>>, <<-1, -1, 1>>, <<0, -1, -1>>}

\* the corners of the test "case: cube", in the order of the test, scaled by 3
\* so that the cube has lattice points strictly inside
CubeCorners ==
    <<<<0, 0, 0>>, <<3, 0, 0>>, <<0, 3, 0>>, <<0, 0, 3>>,
      <<3, 3, 0>>, <<3, 0, 3>>, <<0, 3, 3>>, <<3, 3, 3>>>>

\* the lattice points strictly inside that cube
CubeInterior == {<<x, y, z>> : x \in 1 .. 2, y \in 1 .. 2, z \in 1 .. 2}

\* five points in general position and (1, 1, 1), strictly inside their hull
InteriorSet ==
    {<<0, 0, 0>>, <<0, 1, 3>>, <<3, 2, 1>>, <<3, 3, 2>>, <<3, 0, 1>>, <<1, 1, 1>>}

\* six points in general position: an insertion leaves a vertex beyond two of
\* the new faces, at different distances
RetriageSet ==
    {<<1, 2, 1>>, <<2, 0, 2>>, <<0, 1, 1>>, <<1, 0, 0>>, <<2, 1, 2>>, <<2, 2, 1>>}

\* six points of which, once the seed tetrahedron is built, one is equally far
\* beyond two seed faces and one is beyond none
TieList ==
    <<<<2, 1, 1>>, <<2, 0, 1>>, <<1, 2, 1>>, <<2, 1, 2>>, <<2, 1, 0>>, <<1, 0, 1>>>>

RECURSIVE Flatten(_)
Flatten(pts) == IF pts = <<>> THEN <<>> ELSE Head(pts) \o Flatten(Tail(pts))

Injective(f) == \A i, j \in DOMAIN f : f[i] = f[j] => i = j

PointLists ==
    UNION {[1 .. n -> Pool] : n \in 0 .. MaxPts}
    \cup {t \in [1 .. 4 -> TestTetrahedron] : Injective(t)}
    \cup {t \in [1 .. 6 -> InteriorSet] : Injective(t)}
    \cup {t \in [1 .. 6 -> RetriageSet] : Injective(t)}
    \cup {TieList}
    \cup UNION {{CubeCorners \o inner : inner \in [1 .. k -> CubeInterior]} : k \in 0 .. MaxInterior}

Inputs == {Flatten(pts) : pts \in PointLists}

\* ------------------------------------------------------------ state machine

VARIABLES
    points,     \* the argument of quickhull3
    state,      \* the HullState
    vertex,     \* the local variable vertex of quickhull3, the next eye vertex
    horizon,    \* the local variable horizon of addVertexToHull
    result,     \* the value quickhull3 returns
    raised,     \* the error that ended the call, "" while none
    pc          \* the position of the call

vars == <<points, state, vertex, horizon, result, raised, pc>>

Init ==
    /\ points \in Inputs
    /\ state = NoState
    /\ vertex = Undefined
    /\ horizon = <<>>
    /\ result = <<>>
    /\ raised = ""
    /\ pc = "quickhull3"

\* faulty variant of Quickhull3: the guard lets 3 points through (n < 3)
Quickhull3_Below3 ==
    /\ pc = "quickhull3"
    /\ IF 3 * 3 > Len(points)
       THEN /\ result' = <<>>
            /\ pc' = "returned"
            /\ UNCHANGED state
       ELSE /\ state' = createHullState(points, NumPoints(points))
            /\ pc' = "computeInitialHull"
            /\ UNCHANGED result
    /\ UNCHANGED <<points, vertex, horizon, raised>>

\* quickhull3, to the call of computeInitialHull
Quickhull3 ==
    /\ pc = "quickhull3"
    /\ IF 3 * 4 > Len(points)
       THEN /\ result' = <<>>
            /\ pc' = "returned"
            /\ UNCHANGED state
       ELSE /\ state' = createHullState(points, NumPoints(points))
            /\ pc' = "computeInitialHull"
            /\ UNCHANGED result
    /\ UNCHANGED <<points, vertex, horizon, raised>>

\* computeInitialHull and the first nextVertexToAdd
ComputeInitialHull ==
    /\ pc = "computeInitialHull"
    /\ state' = computeInitialHull(state)
    /\ vertex' = nextVertexToAdd(state')
    /\ pc' = "loop"
    /\ UNCHANGED <<points, horizon, result, raised>>

\* faulty variant of ComputeHorizon: state.unassigned is not cleared
ComputeHorizon_NoClear ==
    /\ pc = "loop"
    /\ vertex # Undefined
    /\ LET eyeFace == state.vertices[vertex].face
       IN  \E ctx \in {computeHorizon(
                          [state |-> removeVertexFromFace(state, vertex, eyeFace),
                           horizon |-> <<>>,
                           raised |-> "",
                           entered |-> <<>>, depth |-> 0, deepest |-> 0],
                          vertex, UndefinedEdge, eyeFace)} :
               /\ state' = ctx.state
               /\ horizon' = ctx.horizon
               /\ raised' = ctx.raised
               /\ pc' = IF ctx.raised # "" THEN "raised" ELSE "addNewFaces"
    /\ UNCHANGED <<points, vertex, result>>

\* addVertexToHull, to the return of computeHorizon
ComputeHorizon ==
    /\ pc = "loop"
    /\ vertex # Undefined
    /\ LET eyeFace == state.vertices[vertex].face
       IN  \E ctx \in {computeHorizon(
                          [state |-> removeVertexFromFace(
                                         [state EXCEPT !.unassigned = createVertexList],
                                         vertex, eyeFace),
                           horizon |-> <<>>,
                           raised |-> "",
                           entered |-> <<>>, depth |-> 0, deepest |-> 0],
                          vertex, UndefinedEdge, eyeFace)} :
               /\ state' = ctx.state
               /\ horizon' = ctx.horizon
               /\ raised' = ctx.raised
               /\ pc' = IF ctx.raised # "" THEN "raised" ELSE "addNewFaces"
    /\ UNCHANGED <<points, vertex, result>>

\* addVertexToHull: addNewFaces
AddNewFaces ==
    /\ pc = "addNewFaces"
    /\ \E ctx \in {addNewFaces([state |-> state, horizon |-> horizon, raised |-> ""], vertex)} :
           /\ state' = ctx.state
           /\ raised' = ctx.raised
           /\ pc' = IF ctx.raised # "" THEN "raised" ELSE "resolveUnassignedPoints"
    /\ UNCHANGED <<points, vertex, horizon, result>>

\* addVertexToHull: resolveUnassignedPoints, and the next nextVertexToAdd
ResolveUnassignedPoints ==
    /\ pc = "resolveUnassignedPoints"
    /\ state' = resolveUnassignedPoints(state, state.newFaces)
    /\ vertex' = nextVertexToAdd(state')
    /\ pc' = "loop"
    /\ UNCHANGED <<points, horizon, result, raised>>

\* faulty variant of Return: no face is filtered out, the DELETED ones are
\* emitted too
Return_AllFaces ==
    /\ pc = "loop"
    /\ vertex = Undefined
    /\ state' = state
    /\ result' = Flatten([f \in 1 .. Len(state.faces) |->
                             <<state.faces[f].edges[1].vertex, state.faces[f].edges[2].vertex,
                               state.faces[f].edges[3].vertex>>])
    /\ pc' = "returned"
    /\ UNCHANGED <<points, vertex, horizon, raised>>

\* the end of the loop: reindexFaces and getTriangleIndices
Return ==
    /\ pc = "loop"
    /\ vertex = Undefined
    /\ state' = reindexFaces(state)
    /\ result' = getTriangleIndices(state')
    /\ pc' = "returned"
    /\ UNCHANGED <<points, vertex, horizon, raised>>

Next ==
    \/ Quickhull3
    \/ ComputeInitialHull
    \/ ComputeHorizon
    \/ AddNewFaces
    \/ ResolveUnassignedPoints
    \/ Return

Spec == Init /\ [][Next]_vars

\* the positions of the call
Positions ==
    {"quickhull3", "computeInitialHull", "loop", "addNewFaces", "resolveUnassignedPoints",
     "returned", "raised"}

\* the call moves on to another position; every step of Next does
Advance == pc \notin {"returned", "raised"} /\ pc' \in Positions \ {pc}

\* the call runs on: quickhull3 is straight-line code on one thread, so a
\* call that has neither returned nor raised takes its next step
FairSpec == Spec /\ WF_pc(Advance)

\* -------------------------------------------------- vocabulary of the claims

\* the indices of the input points
Indices == 0 .. NumPoints(points) - 1
P(i) == Point(points, i)

\* 3 * distance-free orientation test: (Pj - Pi) x (Pk - Pi) . (Pq - Pi)
Orient(i, j, k, q) == Dot(Cross(Sub(P(j), P(i)), Sub(P(k), P(i))), Sub(P(q), P(i)))

AllCollinear ==
    \A i, j, k \in Indices : Cross(Sub(P(j), P(i)), Sub(P(k), P(i))) = <<0, 0, 0>>

AllCoplanar == \A i, j, k, q \in Indices : Orient(i, j, k, q) = 0

\* the triangles of the returned list
Triangles == {<<result[3 * t + 1], result[3 * t + 2], result[3 * t + 3]>> :
                t \in 0 .. (Len(result) \div 3) - 1}

UsedIndices == {result[k] : k \in 1 .. Len(result)}

\* the call is in the insertion loop or past it
Inserting == pc \in {"addNewFaces", "resolveUnassignedPoints"}

\* --------------------------------------------------------------------- C1
\* C1: quickhull3 called with fewer than 4 points (a coordinate array of
\* length 0, 3, 6 or 9) returns the empty list and builds no face: it returns
\* before a hull state exists.
C1_FewerThanFourPoints ==
    Len(points) \in {0, 3, 6, 9} =>
        /\ pc \in {"quickhull3", "returned"}
        /\ state = NoState
        /\ pc = "returned" => result = <<>>

C1_Witness == pc = "returned" /\ Len(points) = 9 /\ result = <<>> /\ ~AllCollinear

\* --------------------------------------------------------------------- C2
\* C2: quickhull3 called with 4 or more points that are all collinear
\* (coincident included) returns the empty list: no face is created and the
\* insertion loop runs zero times.
C2_CollinearReturnsEmpty ==
    (Len(points) >= 12 /\ AllCollinear) =>
        /\ state.faces = <<>>
        /\ ~Inserting
        /\ pc = "loop" => vertex = Undefined
        /\ pc = "returned" => result = <<>>

C2_Witness ==
    /\ pc = "returned"
    /\ Len(points) >= 12
    /\ AllCollinear
    /\ \E i, j \in Indices : P(i) # P(j)
    /\ result = <<>>

C4_NeverRaises ==
    /\ raised = ""
    /\ pc # "raised"
    /\ pc = "addNewFaces" => horizon # <<>>
    /\ pc \in {"loop", "addNewFaces"} =>
          \A f \in 1 .. Len(state.faces) : \A k \in 1 .. 3 :
              state.faces[f].mark = VISIBLE => state.faces[f].edges[k].twin # UndefinedEdge

\* computeHorizon has walked more than one face and addNewFaces has patched
C4_Witness ==
    /\ pc = "resolveUnassignedPoints"
    /\ raised = ""
    /\ Len(horizon) >= 4
    /\ Cardinality({horizon[k][1] : k \in 1 .. Len(horizon)}) >= 2

\* --------------------------------------------------------------------- C5
\* C5: convexity of the result: for every output triangle (i, j, k) and every
\* input point p other than i, j, k, the signed distance of p to the plane of
\* the triangle along the normal (Pj - Pi) x (Pk - Pi) is at most the
\* tolerance.
C5_Convexity ==
    pc = "returned" =>
        \A t \in Triangles : \A q \in Indices \ {t[1], t[2], t[3]} :
            LET n == Cross(Sub(P(t[2]), P(t[1])), Sub(P(t[3]), P(t[1])))
            IN  Dot(n, n) > 0 =>
                    ~Gt(Scalar(Dot(n, Sub(P(q), P(t[1]))), Dot(n, n)), state.tolerance)

\* a hull with inserted vertices and a point that is no vertex of it
C5_Witness ==
    /\ pc = "returned"
    /\ Len(result) >= 18
    /\ Indices \ UsedIndices # {}
    /\ ~AllCoplanar

\* --------------------------------------------------------------------- C6
\* Extreme points, by Caratheodory: input point i is an extreme point when it
\* lies in no segment, triangle or tetrahedron spanned by input points at
\* other positions.
Elsewhere(i) == {j \in Indices : P(j) # P(i)}

InSegment(i, a, b) ==
    /\ P(a) # P(b)
    /\ Cross(Sub(P(i), P(a)), Sub(P(b), P(a))) = <<0, 0, 0>>
    /\ Dot(Sub(P(i), P(a)), Sub(P(b), P(a))) >= 0
    /\ Dot(Sub(P(i), P(a)), Sub(P(b), P(a))) <= Dot(Sub(P(b), P(a)), Sub(P(b), P(a)))

InTriangle(i, a, b, c) ==
    LET n == Cross(Sub(P(b), P(a)), Sub(P(c), P(a)))
    IN  /\ n # <<0, 0, 0>>
        /\ Dot(n, Sub(P(i), P(a))) = 0
        /\ Dot(n, Cross(Sub(P(b), P(a)), Sub(P(i), P(a)))) >= 0
        /\ Dot(n, Cross(Sub(P(c), P(b)), Sub(P(i), P(b)))) >= 0
        /\ Dot(n, Cross(Sub(P(a), P(c)), Sub(P(i), P(c)))) >= 0

InTetrahedron(i, a, b, c, d) ==
    LET v == Orient(a, b, c, d)
    IN  /\ v # 0
        /\ Orient(a, b, c, i) * v >= 0
        /\ Orient(b, a, d, i) * v >= 0
        /\ Orient(c, b, d, i) * v >= 0
        /\ Orient(a, c, d, i) * v >= 0

IsExtreme(i) ==
    LET E == Elsewhere(i)
    IN  /\ \A a, b \in E : a < b => ~InSegment(i, a, b)
        /\ \A a, b, c \in E : (a < b /\ b < c) => ~InTriangle(i, a, b, c)
        /\ \A a, b, c, d \in E : (a < b /\ b < c /\ c < d) => ~InTetrahedron(i, a, b, c, d)

\* input point i lies on the boundary of the convex hull of the input: some
\* plane through three input points has every input point on one side and
\* passes through i
OnHullBoundary(i) ==
    \E a, b, c \in Indices :
        /\ a < b /\ b < c
        /\ Cross(Sub(P(b), P(a)), Sub(P(c), P(a))) # <<0, 0, 0>>
        /\ Orient(a, b, c, i) = 0
        /\ \/ \A q \in Indices : Orient(a, b, c, q) <= 0
           \/ \A q \in Indices : Orient(a, b, c, q) >= 0

\* C6 as claimed: every point index of the output is an extreme point of the
\* input (stated for the inputs that are not coplanar, whose hull is a solid).
C6_OnlyExtremePoints ==
    (pc = "returned" /\ ~AllCoplanar) => \A i \in UsedIndices : IsExtreme(i)

\* C6 as amended: every point index of the output lies on the boundary of the
\* convex hull of the input; a point strictly inside the hull never appears.
C6_NoInteriorVertex ==
    pc = "returned" => \A i \in UsedIndices : OnHullBoundary(i)

\* a hull is returned and a point strictly inside it was left out
C6_Witness ==
    /\ pc = "returned"
    /\ result # <<>>
    /\ \E i \in Indices : ~OnHullBoundary(i) /\ i \notin UsedIndices

\* --------------------------------------------------------------------- C7
\* C7: the output on n points is a flat list whose length is a multiple of 3,
\* whose entries are point indices in 0 .. n - 1, and each triple of which
\* names three pairwise distinct indices.
C7_OutputShape ==
    pc = "returned" =>
        /\ Len(result) % 3 = 0
        /\ \A k \in 1 .. Len(result) : result[k] \in Indices
        /\ \A t \in Triangles : t[1] # t[2] /\ t[2] # t[3] /\ t[1] # t[3]

C7_Witness == pc = "returned" /\ Len(result) >= 24 /\ UsedIndices # Indices

\* --------------------------------------------------------------------- C8
\* C8: a non-empty result satisfies Euler's formula V - E + F = 2 with F the
\* number of triangles, V the number of distinct indices and E = 3F / 2.
NumFaces == Len(result) \div 3
NumVertices == Cardinality(UsedIndices)

C8_Euler ==
    (pc = "returned" /\ result # <<>>) =>
        /\ NumFaces % 2 = 0
        /\ NumVertices - (3 * NumFaces) \div 2 + NumFaces = 2
        /\ NumFaces = 2 * NumVertices - 4

C8_Witness == pc = "returned" /\ NumVertices >= 6 /\ NumFaces = 2 * NumVertices - 4

\* --------------------------------------------------------------------- C9
\* C9: for exactly 4 points that are not coplanar, in any order, quickhull3
\* returns exactly 4 triangles over the indices 0 .. 3 and the insertion loop
\* adds no vertex.
C9_Tetrahedron ==
    (Len(points) = 12 /\ ~AllCoplanar) =>
        /\ ~Inserting
        /\ pc = "loop" => vertex = Undefined
        /\ pc = "returned" => (Len(result) = 12 /\ UsedIndices = 0 .. 3)

C9_Witness ==
    /\ pc = "returned"
    /\ points = <<0, 1, 0, 1, -1, 1, -1, -1, 1, 0, -1, -1>>
    /\ Len(result) = 12

\* -------------------------------------------------------------------- C10
\* the input is the 8 cube corners followed by points strictly inside
CubeInput ==
    /\ Len(points) >= 24
    /\ SubSeq(points, 1, 24) = Flatten(CubeCorners)
    /\ \A i \in Indices : i >= 8 => P(i) \in CubeInterior

\* C10: for the 8 cube corners followed by any number of points strictly
\* inside, quickhull3 returns exactly 12 triangles over exactly the indices
\* 0 .. 7, and no interior point is ever chosen as the eye vertex.
C10_CubeWithInterior ==
    CubeInput =>
        /\ vertex < 8
        /\ pc = "returned" => (Len(result) = 36 /\ UsedIndices = 0 .. 7)

C10_Witness ==
    /\ pc = "returned"
    /\ CubeInput
    /\ NumPoints(points) > 8
    /\ Len(result) = 36

\* -------------------------------------------------------------------- C11
\* the numbers k of leading points such that every later point of the input
\* repeats one of the first k: the input is k points followed by duplicates
DuplicateSplits ==
    {k \in 1 .. NumPoints(points) - 1 :
        \A i \in k .. NumPoints(points) - 1 : \E j \in 0 .. k - 1 : P(i) = P(j)}

\* the input without its trailing duplicates
Leading(k) == SubSeq(points, 1, 3 * k)

\* the state machine returns what quickhull3 computes as a function
RunIsFunction ==
    pc = "returned" => quickhull3(points) = [result |-> result, raised |-> ""]

\* C11: appending duplicates of points already present does not change the
\* number of triangles returned, and of several coincident points at most one
\* is used as a hull vertex.
C11_DuplicatesChangeNothing ==
    pc = "returned" =>
        /\ \A k \in DuplicateSplits : Len(result) = Len(quickhull3(Leading(k)).result)
        /\ \A i, j \in UsedIndices : P(i) = P(j) => i = j

\* what holds of it: the same, for the inputs that are not coplanar
C11_DuplicatesOffPlane ==
    (pc = "returned" /\ ~AllCoplanar) =>
        /\ RunIsFunction
        /\ \A k \in DuplicateSplits : Len(result) = Len(quickhull3(Leading(k)).result)
        /\ \A i, j \in UsedIndices : P(i) = P(j) => i = j

\* -------------------------------------------------------------------- C14
\* the half-edges of the VISIBLE faces
LiveEdges ==
    {<<f, k>> : f \in {g \in 1 .. Len(state.faces) : state.faces[g].mark = VISIBLE},
                k \in 0 .. 2}

\* the seed tetrahedron is built, or an addVertexToHull has just completed
BetweenInsertions == pc = "loop" /\ state.faces # <<>>

\* C14: twin symmetry of the live mesh between insertions: every half-edge e
\* of a VISIBLE face has a twin, e.twin.twin is e, e.twin belongs to another
\* face that is VISIBLE too, and e.twin runs from the head of e to its tail.
C14_TwinSymmetry ==
    BetweenInsertions =>
        \A e \in LiveEdges :
            LET twin == EdgeOf(state.faces, e).twin
            IN  /\ twin # UndefinedEdge
                /\ EdgeOf(state.faces, twin).twin = e
                /\ twin[1] # e[1]
                /\ state.faces[twin[1]].mark = VISIBLE
                /\ halfEdgeHead(state.faces, twin) = halfEdgeTail(state.faces, e)
                /\ halfEdgeTail(state.faces, twin) = halfEdgeHead(state.faces, e)

\* an addVertexToHull has completed: faces were deleted and new ones patched in
C14_Witness ==
    /\ BetweenInsertions
    /\ \E f \in 1 .. Len(state.faces) : state.faces[f].mark = DELETED
    /\ Cardinality(LiveEdges) >= 18

\* -------------------------------------------------------------------- C16
\* the nodes met from vertex v along next, seen being those met before
RECURSIVE ChainFrom(_, _, _)
ChainFrom(vertices, v, seen) ==
    IF v = Undefined \/ v \in seen THEN seen
    ELSE ChainFrom(vertices, vertices[v].next, seen \cup {v})

\* the vertices reachable from the head of a list
Members(list) == ChainFrom(state.vertices, list.head, {})

\* C16 as claimed: at every step no vertex is reachable from state.assigned.head
\* and also from state.unassigned.head.
C16_OneListAtMost ==
    Members(state.assigned) \cap Members(state.unassigned) = {}

\* C16 as amended: from the vertexListClear of addVertexToHull to the call of
\* resolveUnassignedPoints no vertex is reachable from both heads.
C16_DisjointUntilResolve ==
    Inserting => Members(state.assigned) \cap Members(state.unassigned) = {}

\* computeHorizon has orphaned vertices while other faces keep theirs
C16_Witness ==
    /\ pc = "resolveUnassignedPoints"
    /\ Members(state.assigned) # {}
    /\ Members(state.unassigned) # {}

\* -------------------------------------------------------------------- C17
\* the vertices met from v along next while their face is f
RECURSIVE RunFrom(_, _, _)
RunFrom(v, f, seen) ==
    IF v = Undefined \/ v \in seen THEN seen
    ELSE IF state.vertices[v].face # f THEN seen
    ELSE RunFrom(state.vertices[v].next, f, seen \cup {v})

\* the outside list of face f: the run of the assigned list that starts at
\* faces[f].outside
OutsideRun(f) == RunFrom(state.faces[f].outside, f, {})

Vertices == DOMAIN state.vertices

\* C17 as claimed: a vertex whose face back-reference is set is in the outside
\* list of that face.
C17_BackReferenceOnlyWhileOutside ==
    pc # "returned" =>
        \A v \in Vertices :
            state.vertices[v].face # Undefined => v \in OutsideRun(state.vertices[v].face)

\* C17 as amended: every member of the assigned list has a back-reference to
\* a VISIBLE face and is in the outside list of that face, and the outside
\* list of every VISIBLE face is made of members of the assigned list.
C17_AssignedHaveBackReference ==
    pc # "returned" =>
        /\ \A v \in Members(state.assigned) :
               /\ state.vertices[v].face # Undefined
               /\ state.faces[state.vertices[v].face].mark = VISIBLE
               /\ v \in OutsideRun(state.vertices[v].face)
        /\ \A f \in 1 .. Len(state.faces) :
               state.faces[f].mark = VISIBLE => OutsideRun(f) \subseteq Members(state.assigned)

\* a face has two outside vertices, and a vertex that left the assigned list
\* still carries a back-reference
C17_Witness ==
    /\ pc = "loop"
    /\ \E f \in 1 .. Len(state.faces) :
           state.faces[f].mark = VISIBLE /\ Cardinality(OutsideRun(f)) >= 2
    /\ \E v \in Vertices \ Members(state.assigned) : state.vertices[v].face # Undefined

\* -------------------------------------------------------------------- C18
\* the vertices still to be inserted or dropped: the assigned list, and
\* during an insertion the vertices orphaned to the unassigned list
Pending ==
    IF Inserting THEN Members(state.assigned) \cup Members(state.unassigned)
    ELSE Members(state.assigned)

\* no step adds a pending vertex, and computeHorizon takes the eye vertex out
C18_Step ==
    /\ pc' # pc
    /\ pc \in {"loop", "addNewFaces", "resolveUnassignedPoints"} =>
           Members(state.assigned)' \subseteq Pending
    /\ (pc = "loop" /\ pc' = "addNewFaces") =>
           /\ vertex \in Members(state.assigned)
           /\ vertex \notin Pending'
           /\ Pending' \subseteq Pending

\* at most n - 4 vertices are pending, nextVertexToAdd returns undefined
\* only for an empty assigned list, and no face keeps outside vertices on return
C18_State ==
    /\ pc \in Positions \ {"raised"}
    /\ pc \in {"loop", "addNewFaces", "resolveUnassignedPoints"} =>
           Cardinality(Pending) + 4 <= NumPoints(points)
    /\ (pc = "loop" /\ vertex = Undefined) => vertexListIsEmpty(state.assigned)
    /\ pc = "returned" =>
           /\ vertexListIsEmpty(state.assigned)
           /\ \A f \in 1 .. Len(state.faces) : state.faces[f].outside = Undefined

\* C18: the insertion loop terminates and ends only when no face has outside
\* vertices: every addVertexToHull strictly decreases the assigned list, at
\* most n - 4 insertions happen, nextVertexToAdd returns undefined only when
\* the assigned list is empty, and on return every face has an empty outside
\* list.
C18_LoopTerminates ==
    /\ []C18_State
    /\ [][C18_Step]_vars
    /\ <>(pc = "returned")

\* the loop has ended after insertions that dropped a vertex on the way
C18_Witness ==
    /\ pc = "returned"
    /\ NumPoints(points) > NumVertices
    /\ NumVertices >= 5
    /\ \A f \in 1 .. Len(state.faces) : state.faces[f].outside = Undefined

\* -------------------------------------------------------------------- C19
\* the face that owns the head of the assigned list
HeadFace == state.vertices[state.assigned.head].face

\* the signed distance of vertex u to face f
EyeDistance(f, u) == faceDistanceToPoint(state.faces[f], state.points, u)

\* C19: with a non-empty assigned list nextVertexToAdd returns a vertex of the
\* outside list of the face that owns the head of the list; no vertex of that
\* outside list is farther from the face, and of the farthest ones it is the
\* earliest in list order.
C19_EyeVertexIsFarthest ==
    (pc = "loop" /\ ~vertexListIsEmpty(state.assigned)) =>
        /\ vertex # Undefined
        /\ state.vertices[vertex].face = HeadFace
        /\ vertex \in OutsideRun(HeadFace)
        /\ \A u \in OutsideRun(HeadFace) :
               /\ ~Gt(EyeDistance(HeadFace, u), EyeDistance(HeadFace, vertex))
               /\ ~Lt(EyeDistance(HeadFace, u), EyeDistance(HeadFace, vertex)) =>
                      u \in RunFrom(vertex, HeadFace, {})

\* the eye vertex was chosen among several, one of them as far as it and one
\* nearer, while another face has outside vertices too
C19_Witness ==
    /\ pc = "loop"
    /\ ~vertexListIsEmpty(state.assigned)
    /\ \E u \in OutsideRun(HeadFace) \ {vertex} :
           ~Gt(EyeDistance(HeadFace, vertex), EyeDistance(HeadFace, u))
    /\ \E u \in OutsideRun(HeadFace) :
           Gt(EyeDistance(HeadFace, vertex), EyeDistance(HeadFace, u))
    /\ Members(state.assigned) # OutsideRun(HeadFace)

\* -------------------------------------------------------------------- C20
\* the faces across the three edges of face f
Neighbours(f) == {state.faces[f].edges[k].twin[1] : k \in 1 .. 3}

\* face f is live and the eye vertex is farther than tolerance on its outer side
SeesEye(f) ==
    /\ state.faces[f].mark = VISIBLE
    /\ Gt(EyeDistance(f, vertex), state.tolerance)

\* the faces reached from the faces of seen through twin adjacency across
\* faces that see the eye vertex
RECURSIVE Flood(_)
Flood(seen) ==
    LET more == {g \in UNION {Neighbours(f) : f \in seen} : SeesEye(g)} \ seen
    IN  IF more = {} THEN seen ELSE Flood(seen \cup more)

\* computeHorizon runs for the eye vertex
HorizonStep == pc = "loop" /\ pc' = "addNewFaces"

\* the faces computeHorizon marks DELETED in this step
NewlyDeleted ==
    {f \in 1 .. Len(state.faces) :
        state.faces[f].mark = VISIBLE /\ state'.faces[f].mark = DELETED}

\* the half-edges of the newly deleted faces whose twin's face stays VISIBLE
Boundary ==
    {e \in NewlyDeleted \X (0 .. 2) :
        state'.faces[EdgeOf(state.faces, e).twin[1]].mark = VISIBLE}

\* computeHorizon deletes the faces reachable from the eye face across faces
\* that see the eye vertex, and the horizon lists each boundary edge once
C20_Step ==
    HorizonStep =>
        /\ NewlyDeleted = Flood({state.vertices[vertex].face})
        /\ {horizon'[k] : k \in 1 .. Len(horizon')} = Boundary
        /\ Len(horizon') = Cardinality(Boundary)
        /\ \A e \in Boundary :
               ~Gt(EyeDistance(EdgeOf(state.faces, e).twin[1], vertex), state.tolerance)
        /\ Len(state'.faces) = Len(state.faces)

\* C20: when computeHorizon returns for an eye vertex, the faces it marked
\* DELETED are exactly the faces reachable from the eye vertex's face through
\* twin adjacency across faces farther than tolerance below the eye vertex,
\* and the horizon is exactly the set of half-edges of those faces whose
\* twin's face is still VISIBLE, each of them once.
C20_Horizon == [][C20_Step]_vars

\* computeHorizon has crossed an edge into a second face: the horizon has the
\* four outer edges of two deleted faces, and the edge between them is not in it
C20_Witness ==
    /\ pc = "addNewFaces"
    /\ Len(horizon) = 4
    /\ \E e \in (1 .. Len(state.faces)) \X (0 .. 2) :
           /\ state.faces[e[1]].mark = DELETED
           /\ state.faces[EdgeOf(state.faces, e).twin[1]].mark = DELETED
           /\ e[1] \in {horizon[k][1] : k \in 1 .. 4}
           /\ EdgeOf(state.faces, e).twin[1] \in {horizon[k][1] : k \in 1 .. 4} \ {e[1]}

\* ================================================================ quickhull2

MaxPts2 == 5
MaxCoord == 2

\* EPSILON is 1e-10, strictly between 0 and 1. The coordinates of the inputs
\* are whole numbers, so every difference and cross product compared with
\* EPSILON is a whole number x: x > EPSILON is x >= 1, x < -EPSILON is x <= -1,
\* and x < EPSILON is x <= 0.
AboveEPSILON(x) == x >= 1
BelowMinusEPSILON(x) == x <= -1
BelowEPSILON(x) == x <= 0

\* (p2 - p1) x (p3 - p1) on the flat array of 2D points, 0-based indices
crossProduct(pts, p1, p2, p3) ==
    (pts[p2 * 2 + 1] - pts[p1 * 2 + 1]) * (pts[p3 * 2 + 2] - pts[p1 * 2 + 2])
    - (pts[p2 * 2 + 2] - pts[p1 * 2 + 2]) * (pts[p3 * 2 + 1] - pts[p1 * 2 + 1])

\* the loop of findHull for the farthest point of sk from the segment p q,
\* from position k of sk on
RECURSIVE FarthestFromSegment(_, _, _, _, _, _)
FarthestFromSegment(pts, sk, p, q, k, acc) ==
    IF k > Len(sk) THEN acc
    ELSE LET Step(dist) ==
                 IF dist > acc.maxDist THEN [maxIdx |-> sk[k], maxDist |-> dist] ELSE acc
         IN  FarthestFromSegment(pts, sk, p, q, k + 1,
                                 Step(AbsInt(crossProduct(pts, p, q, sk[k]))))

\* the hull array after findHull(points, sk, p, q, hull)
RECURSIVE findHull(_, _, _, _, _)
findHull(pts, sk, p, q, hull) ==
    IF sk = <<>> THEN hull
    ELSE LET RightOfPC(maxIdx, idx) ==
                 idx # maxIdx /\ BelowMinusEPSILON(crossProduct(pts, p, maxIdx, idx))
             RightOfCQ(maxIdx, idx) ==
                 /\ idx # maxIdx
                 /\ ~BelowMinusEPSILON(crossProduct(pts, p, maxIdx, idx))
                 /\ BelowMinusEPSILON(crossProduct(pts, maxIdx, q, idx))
             Split(maxIdx) ==
                 IF maxIdx = -1 THEN hull
                 ELSE findHull(pts,
                               SelectSeq(sk, LAMBDA idx : RightOfCQ(maxIdx, idx)),
                               maxIdx, q,
                               Append(findHull(pts,
                                               SelectSeq(sk, LAMBDA idx : RightOfPC(maxIdx, idx)),
                                               p, maxIdx, hull),
                                      maxIdx))
         IN  Split(FarthestFromSegment(pts, sk, p, q, 1,
                                       [maxIdx |-> -1, maxDist |-> -1]).maxIdx)

\* the loop of quickhull2 for the leftmost and the rightmost point, from index i on
RECURSIVE LeftRightScan(_, _, _, _)
LeftRightScan(pts, n, i, acc) ==
    IF i >= n THEN acc
    ELSE LET Right(a) ==
                 IF pts[i * 2 + 1] > a.maxX
                 THEN [a EXCEPT !.maxX = pts[i * 2 + 1], !.rightIdx = i] ELSE a
             Left(a) ==
                 IF pts[i * 2 + 1] < a.minX
                 THEN [a EXCEPT !.minX = pts[i * 2 + 1], !.leftIdx = i] ELSE a
         IN  LeftRightScan(pts, n, i + 1, Right(Left(acc)))

\* the indices 0 .. n - 1 in order
IndexSeq(n) == [k \in 1 .. n |-> k - 1]

\* the array quickhull2(points) returns
quickhull2(pts) ==
    LET n == Len(pts) \div 2
        Hull(leftIdx, rightIdx) ==
            LET InS1(i) == /\ i \notin {leftIdx, rightIdx}
                           /\ ~AboveEPSILON(crossProduct(pts, leftIdx, rightIdx, i))
                           /\ BelowMinusEPSILON(crossProduct(pts, leftIdx, rightIdx, i))
                InS2(i) == /\ i \notin {leftIdx, rightIdx}
                           /\ AboveEPSILON(crossProduct(pts, leftIdx, rightIdx, i))
            IN  findHull(pts, SelectSeq(IndexSeq(n), InS2), rightIdx, leftIdx,
                         Append(findHull(pts, SelectSeq(IndexSeq(n), InS1),
                                         leftIdx, rightIdx, <<leftIdx>>),
                                rightIdx))
        Scanned(e) ==
            IF BelowEPSILON(AbsInt(e.maxX - e.minX)) THEN <<e.leftIdx>>
            ELSE Hull(e.leftIdx, e.rightIdx)
    IN  IF n < 3 THEN [k \in 1 .. n |-> 0]
        ELSE Scanned(LeftRightScan(pts, n, 1,
                                   [leftIdx |-> 0, rightIdx |-> 0,
                                    minX |-> pts[1], maxX |-> pts[1]]))

\* the inputs: the flat arrays of up to MaxPts2 points with whole coordinates
\* in 0 .. MaxCoord, in every order, coincident points included
Init2 ==
    /\ \E n \in 0 .. MaxPts2 : points \in [1 .. 2 * n -> 0 .. MaxCoord]
    /\ state = NoState
    /\ vertex = Undefined
    /\ horizon = <<>>
    /\ result = <<>>
    /\ raised = ""
    /\ pc = "quickhull2"

Quickhull2 ==
    /\ pc = "quickhull2"
    /\ result' = quickhull2(points)
    /\ pc' = "returned"
    /\ UNCHANGED <<points, state, vertex, horizon, raised>>

Next2 == Quickhull2

Spec2 == Init2 /\ [][Next2]_vars

\* ----------------------------------------------- vocabulary of C12 and C13
Indices2 == 0 .. (Len(points) \div 2) - 1
P2(i) == <<points[i * 2 + 1], points[i * 2 + 2]>>
Turn(a, b, c) == crossProduct(points, a, b, c)
AllCollinear2 == \A a, b, c \in Indices2 : Turn(a, b, c) = 0
AllCoincident2 == \A a, b \in Indices2 : P2(a) = P2(b)
Returned2 == pc = "returned"

\* element k of the output, cyclically (k from 1)
Cyc(k) == result[((k - 1) % Len(result)) + 1]

\* every cyclically consecutive triple of the output turns left by at least least
TurnsAtLeast(least) ==
    \A k \in 1 .. Len(result) : Turn(Cyc(k), Cyc(k + 1), Cyc(k + 2)) >= least

\* no index appears twice in the output
NoIndexTwice == Injective(result)

\* -------------------------------------------------------------------- C12
\* C12: for an input of at least 3 points that are not all collinear, every
\* cyclically consecutive triple (a, b, c) of the output of quickhull2 makes a
\* left turn, (Pb - Pa) x (Pc - Pa) > 0, and no index appears twice.
C12_CounterClockwise ==
    (Returned2 /\ Cardinality(Indices2) >= 3 /\ ~AllCollinear2) =>
        /\ TurnsAtLeast(1)
        /\ NoIndexTwice

\* the output never turns right and names no index twice
C12_NeverClockwise ==
    (Returned2 /\ Cardinality(Indices2) >= 3 /\ ~AllCollinear2) =>
        /\ TurnsAtLeast(0)
        /\ NoIndexTwice
        /\ Len(result) >= 3

\* -------------------------------------------------------------------- C13
SquaredDistance2(a, b) ==
    (P2(a)[1] - P2(b)[1]) * (P2(a)[1] - P2(b)[1])
    + (P2(a)[2] - P2(b)[2]) * (P2(a)[2] - P2(b)[2])

\* a and b are the two ends of the segment the collinear points lie on
Extremes2(a, b) ==
    \A c, d \in Indices2 : SquaredDistance2(c, d) <= SquaredDistance2(a, b)

\* the output holds two indices or more, and points at both ends of the segment
IncludesExtremes ==
    /\ Len(result) >= 2
    /\ \E j, k \in 1 .. Len(result) : Extremes2(result[j], result[k])

CollinearInput == Cardinality(Indices2) >= 3 /\ AllCollinear2 /\ ~AllCoincident2

\* the points have the same x: the line is parallel to the y axis
Vertical == \A a, b \in Indices2 : P2(a)[1] = P2(b)[1]

\* C13: for 3 or more collinear points that are not all coincident, whatever
\* the direction of the line, quickhull2 returns at least 2 indices and the
\* result includes the two extreme points of the segment.
C13_CollinearExtremes == (Returned2 /\ CollinearInput) => IncludesExtremes

\* the same on the lines that are not parallel to the y axis
C13_CollinearExtremesOffVertical ==
    (Returned2 /\ CollinearInput /\ ~Vertical) => IncludesExtremes

\* ====================================================== the conflict lists
\* The list operations applied, in any order and with any arguments their
\* callers may pass, to the two conflict lists of a HullState of MaxNodes
\* vertices. pc names the operation applied last, result holds its vertex
\* arguments, and vertex is the first node of the chain that
\* removeAllVerticesFromFace has taken out of the assigned list and that
\* deleteFaceVertices has not yet appended to the unassigned list.

MaxNodes == 3

Nodes == 0 .. MaxNodes - 1
ListNames == {"assigned", "unassigned"}

\* the nodes of the detached chain
ChainNodes == ChainFrom(state.vertices, vertex, {})

\* the nodes that are in no list and not in the detached chain
Free == Nodes \ (Members(state.assigned) \cup Members(state.unassigned) \cup ChainNodes)

\* the state after a list operation on list name has returned r
WithList(name, r) == [state EXCEPT !.vertices = r.vertices, ![name] = r.list]

ListInit ==
    /\ points = <<>>
    /\ state = createHullState(<<>>, MaxNodes)
    /\ vertex = Undefined
    /\ horizon = <<>>
    /\ result = <<>>
    /\ raised = ""
    /\ pc = "createVertexList"

\* vertexListAppend(state.assigned, vertex) of addVertexToFace and
\* vertexListAppend(state.unassigned, vertex) of deleteFaceVertices
VertexListAppend ==
    /\ pc # "vertexListRemoveSubList"
    /\ \E name \in ListNames, v \in Free :
           /\ state' = WithList(name, vertexListAppend(state.vertices, state[name], v))
           /\ result' = <<v>>
    /\ pc' = "vertexListAppend"
    /\ UNCHANGED <<points, vertex, horizon, raised>>

\* vertexListInsertBefore(state.assigned, face.outside, vertex) of addVertexToFace
VertexListInsertBefore ==
    /\ pc # "vertexListRemoveSubList"
    /\ \E target \in Members(state.assigned), v \in Free :
           /\ state' = WithList("assigned",
                                vertexListInsertBefore(state.vertices, state.assigned, target, v))
           /\ result' = <<target, v>>
    /\ pc' = "vertexListInsertBefore"
    /\ UNCHANGED <<points, vertex, horizon, raised>>

\* vertexListRemove(state.assigned, vertex) of removeVertexFromFace
VertexListRemove ==
    /\ pc # "vertexListRemoveSubList"
    /\ \E v \in Members(state.assigned) :
           /\ state' = WithList("assigned",
                                vertexListRemove(state.vertices, state.assigned, v))
           /\ result' = <<v>>
    /\ pc' = "vertexListRemove"
    /\ UNCHANGED <<points, vertex, horizon, raised>>

\* vertexListRemoveSubList(state.assigned, start, end_) of
\* removeAllVerticesFromFace: end_ is start or comes after it
VertexListRemoveSubList ==
    /\ pc # "vertexListRemoveSubList"
    /\ vertex = Undefined
    /\ \E a \in Members(state.assigned) :
           \E b \in ChainFrom(state.vertices, a, {}) :
               /\ state' = WithList("assigned",
                                    vertexListRemoveSubList(state.vertices, state.assigned, a, b))
               /\ result' = <<a, b>>
    /\ pc' = "vertexListRemoveSubList"
    /\ UNCHANGED <<points, vertex, horizon, raised>>

\* start.prev = undefined and end_.next = undefined of removeAllVerticesFromFace,
\* which returns start
DetachChain ==
    /\ pc = "vertexListRemoveSubList"
    /\ state' = [state EXCEPT !.vertices[result[1]].prev = Undefined,
                              !.vertices[result[2]].next = Undefined]
    /\ vertex' = result[1]
    /\ pc' = "removeAllVerticesFromFace"
    /\ UNCHANGED <<points, horizon, result, raised>>

\* vertexListAppendChain(state.unassigned, faceVertices) of deleteFaceVertices
VertexListAppendChain ==
    /\ pc # "vertexListRemoveSubList"
    /\ vertex # Undefined
    /\ state' = WithList("unassigned",
                         vertexListAppendChain(state.vertices, state.unassigned, vertex))
    /\ result' = <<vertex>>
    /\ vertex' = Undefined
    /\ pc' = "vertexListAppendChain"
    /\ UNCHANGED <<points, horizon, raised>>

ListNext ==
    \/ VertexListAppend
    \/ VertexListInsertBefore
    \/ VertexListRemove
    \/ VertexListRemoveSubList
    \/ DetachChain
    \/ VertexListAppendChain

ListSpec == ListInit /\ [][ListNext]_vars

\* -------------------------------------------------------------------- C15
\* head has no prev, tail has no next, x.next.prev is x for every member x with
\* a successor, and the tail is reachable from the head
WellFormed(list) ==
    /\ (list.head = Undefined) <=> (list.tail = Undefined)
    /\ list.head # Undefined =>
           /\ state.vertices[list.head].prev = Undefined
           /\ state.vertices[list.tail].next = Undefined
           /\ list.tail \in Members(list)
           /\ \A x \in Members(list) :
                  state.vertices[x].next # Undefined =>
                      state.vertices[state.vertices[x].next].prev = x

BothWellFormed == WellFormed(state.assigned) /\ WellFormed(state.unassigned)

\* the members of list name become the old members plus more and minus less,
\* and the members of the other list stay
MembersChange(name, more, less) ==
    /\ Members(state[name])' = (Members(state[name]) \cup more) \ less
    /\ \A other \in ListNames \ {name} : Members(state[other])' = Members(state[other])

\* what each list operation does to the members
C15_Step ==
    /\ pc' = "vertexListAppend" =>
           \E name \in ListNames : MembersChange(name, {result'[1]}, {})
    /\ pc' = "vertexListInsertBefore" =>
           MembersChange("assigned", {result'[2]}, {})
    /\ pc' = "vertexListRemove" =>
           MembersChange("assigned", {}, {result'[1]})
    /\ pc' = "vertexListRemoveSubList" =>
           MembersChange("assigned", {},
                         {x \in ChainFrom(state.vertices, result'[1], {}) :
                              result'[2] \in ChainFrom(state.vertices, x, {})})
    /\ pc' = "vertexListAppendChain" =>
           MembersChange("unassigned", ChainNodes, {})

\* C15: each of vertexListAppend, vertexListInsertBefore, vertexListRemove,
\* vertexListRemoveSubList and vertexListAppendChain, applied to a well-formed
\* list, leaves it well-formed, with the old members plus the inserted or
\* minus the removed ones, at the boundaries too.
C15_ListIntegrity == []BothWellFormed /\ [][C15_Step]_vars

\* the boundaries: a sublist of two nodes or more that was the whole list has
\* been removed, and the chain goes to the empty unassigned list
C15_Witness ==
    /\ pc = "vertexListRemoveSubList"
    /\ result[1] # result[2]
    /\ state.assigned = createVertexList
    /\ state.unassigned = createVertexList

\* -------------------------------------------------------------------- C21
\* addNewFaces has returned for the eye vertex and the horizon
Patched == pc = "resolveUnassignedPoints" /\ raised = ""

\* position k of the horizon, cyclically (k from 1)
After(k) == (k % Len(horizon)) + 1

\* the head of each horizon edge is the tail of the next, the last to the first
HorizonIsLoop ==
    \A k \in 1 .. Len(horizon) :
        halfEdgeHead(state.faces, horizon[k]) = halfEdgeTail(state.faces, horizon[After(k)])

\* the face created for horizon edge k is face newFaces[k], the k-th of the
\* last Len(horizon) faces, and it is (eye, tail, head)
NewFaceOf(k) == state.newFaces[k]

OneFacePerEdge ==
    /\ Len(state.newFaces) = Len(horizon)
    /\ \A k \in 1 .. Len(horizon) :
           /\ NewFaceOf(k) = Len(state.faces) - Len(horizon) + k
           /\ state.faces[NewFaceOf(k)].mark = VISIBLE
           /\ halfEdgeHead(state.faces, <<NewFaceOf(k), 0>>) = vertex
           /\ halfEdgeHead(state.faces, <<NewFaceOf(k), 1>>)
                  = halfEdgeTail(state.faces, horizon[k])
           /\ halfEdgeHead(state.faces, <<NewFaceOf(k), 2>>)
                  = halfEdgeHead(state.faces, horizon[k])

\* the base edge of new face k and the edge of the surviving face across
\* horizon edge k are twins of each other
BaseTwinned ==
    \A k \in 1 .. Len(horizon) :
        /\ EdgeOf(state.faces, <<NewFaceOf(k), 2>>).twin = EdgeOf(state.faces, horizon[k]).twin
        /\ EdgeOf(state.faces, EdgeOf(state.faces, horizon[k]).twin).twin = <<NewFaceOf(k), 2>>
        /\ state.faces[EdgeOf(state.faces, horizon[k]).twin[1]].mark = VISIBLE
        /\ EdgeOf(state.faces, horizon[k]).twin[1] \notin
               {state.newFaces[j] : j \in 1 .. Len(state.newFaces)}

\* the edge into the eye vertex of new face k and the edge out of the eye vertex
\* of the next new face are twins of each other, the last with the first
FanClosed ==
    \A k \in 1 .. Len(horizon) :
        /\ EdgeOf(state.faces, <<NewFaceOf(k), 0>>).twin = <<NewFaceOf(After(k)), 1>>
        /\ EdgeOf(state.faces, <<NewFaceOf(After(k)), 1>>).twin = <<NewFaceOf(k), 0>>
        /\ halfEdgeTail(state.faces, <<NewFaceOf(After(k)), 1>>) = vertex
        /\ halfEdgeTail(state.faces, <<NewFaceOf(k), 0>>)
               = halfEdgeHead(state.faces, <<NewFaceOf(After(k)), 1>>)

\* C21: the horizon handed to addNewFaces is a single closed loop in order;
\* addNewFaces creates exactly one new face (eye, tail, head) per horizon
\* edge, twins its base edge with the surviving face's edge across the
\* horizon, and twins each pair of consecutive new faces, the last with the
\* first, along an edge both share with the eye vertex.
C21_FanClosed ==
    /\ (pc = "addNewFaces" /\ raised = "") => (Len(horizon) >= 3 /\ HorizonIsLoop)
    /\ Patched => (HorizonIsLoop /\ OneFacePerEdge /\ BaseTwinned /\ FanClosed)

\* a fan of four new faces around the eye vertex, over a horizon that runs
\* along two deleted faces
C21_Witness ==
    /\ Patched
    /\ Len(state.newFaces) = 4
    /\ Cardinality({halfEdgeHead(state.faces, horizon[k]) : k \in 1 .. 4}) = 4

\* -------------------------------------------------------------------- C22
\* resolveUnassignedPoints runs on the new faces
ResolveStep == pc = "resolveUnassignedPoints" /\ pc' = "loop"

\* the signed distance of vertex u to the k-th new face
NewFaceDistance(k, u) == EyeDistance(state.newFaces[k], u)

\* the positions of the new faces vertex u lies beyond tolerance of
BeyondTolerance(u) ==
    {k \in 1 .. Len(state.newFaces) : Gt(NewFaceDistance(k, u), state.tolerance)}

\* the positions of the new faces vertex u lies beyond 1000 * tolerance of
BeyondBreak(u) ==
    {k \in 1 .. Len(state.newFaces) :
        Gt(NewFaceDistance(k, u), Times(1000, state.tolerance))}

\* the positions of BeyondTolerance(u) no other of which is farther
Farthest(u) ==
    {k \in BeyondTolerance(u) :
        \A j \in BeyondTolerance(u) : ~Gt(NewFaceDistance(j, u), NewFaceDistance(k, u))}

Least(S) == CHOOSE k \in S : \A j \in S : k <= j

\* the first new face whose distance exceeds tolerance
FirstBeyond(u) ==
    IF BeyondTolerance(u) = {} THEN Undefined ELSE state.newFaces[Least(BeyondTolerance(u))]

\* the first new face whose distance exceeds 1000 * tolerance, or with none
\* the earliest of the farthest new faces beyond tolerance
Retriaged(u) ==
    IF BeyondBreak(u) # {} THEN state.newFaces[Least(BeyondBreak(u))]
    ELSE IF BeyondTolerance(u) = {} THEN Undefined
    ELSE state.newFaces[Least(Farthest(u))]

\* the vertices of the faces that are VISIBLE
LiveVertices == {halfEdgeHead(state.faces, e) : e \in LiveEdges}

\* vertex u is in no conflict list that is in use, is not a vertex of the hull
\* and is not being inserted
Interior(u) ==
    /\ state.faces # <<>>
    /\ u \notin Pending
    /\ u \notin LiveVertices
    /\ Inserting => u # vertex
    /\ pc = "returned" => u \notin UsedIndices

\* vertex u goes to the outside list of face f
ReassignedTo(u, f) ==
    /\ state'.vertices[u].face = f
    /\ u \in Members(state.assigned)'
    /\ u \in OutsideRun(f)'

\* C22 as claimed: each vertex of the unassigned list goes to the first new
\* face whose signed distance exceeds tolerance; beyond tolerance of none it is
\* added to no list and never appears in a conflict list or in the output
\* afterwards.
C22_Step ==
    /\ ResolveStep =>
           \A u \in Members(state.unassigned) :
               IF FirstBeyond(u) # Undefined THEN ReassignedTo(u, FirstBeyond(u))
               ELSE /\ u \notin Members(state.assigned)'
                    /\ u \notin Members(state.unassigned)'
                    /\ Interior(u)'
    /\ \A u \in Vertices : Interior(u) => Interior(u)'

C22_StepAmended ==
    /\ ResolveStep =>
           \A u \in Members(state.unassigned) :
               IF Retriaged(u) # Undefined THEN ReassignedTo(u, Retriaged(u))
               ELSE /\ u \notin Members(state.assigned)'
                    /\ Interior(u)'
    /\ \A u \in Vertices : Interior(u) => Interior(u)'

SeedBuilt == pc = "loop" /\ Len(state.faces) = 4

\* the seed faces vertex u lies beyond tolerance of
SeedBeyond(u) == {f \in 1 .. 4 : Gt(EyeDistance(f, u), state.tolerance)}

\* the faces of SeedBeyond(u) no other of which is farther
SeedFarthest(u) ==
    {f \in SeedBeyond(u) : \A g \in SeedBeyond(u) : ~Gt(EyeDistance(g, u), EyeDistance(f, u))}

InNoList(u) == u \notin Members(state.assigned) /\ u \notin Members(state.unassigned)

\* C23: after the seed tetrahedron is built, every input point other than the
\* four seed vertices is in the outside list of the seed face to which its
\* signed distance is maximal, provided that distance exceeds tolerance (the
\* first such face in face order on ties), and in no list when its distance
\* to all four faces is at most tolerance; the four seed vertices are in no
\* list.
C23_InitialAssignment ==
    SeedBuilt =>
        /\ Cardinality(LiveVertices) = 4
        /\ \A u \in LiveVertices : InNoList(u)
        /\ \A u \in Vertices \ LiveVertices :
               IF SeedFarthest(u) # {}
               THEN /\ state.vertices[u].face = Least(SeedFarthest(u))
                    /\ u \in OutsideRun(Least(SeedFarthest(u)))
                    /\ u \in Members(state.assigned)
                    /\ \A f \in (1 .. 4) \ {Least(SeedFarthest(u))} : u \notin OutsideRun(f)
               ELSE InNoList(u)

\* one point is equally far beyond two seed faces, another is beyond none
C23_Witness ==
    /\ SeedBuilt
    /\ \E u \in Vertices \ LiveVertices : Cardinality(SeedFarthest(u)) >= 2
    /\ \E u \in Vertices \ LiveVertices : SeedBeyond(u) = {}

\* ====================================== the comparisons with the tolerance
\* The run of quickhull3 on six points in general position, and at each state
\* between two insertions the three comparisons with the tolerance applied to
\* a vertex u and a tolerance t drawn from the distances of u to the faces, so
\* that a distance equal to the tolerance happens: the scan of the initial
\* assignment, the scan of resolveUnassignedPoints and the walk of
\* computeHorizon. A probe ends the behaviour; it leaves u in vertex, the state
\* with tolerance t in state, the face chosen in result and the edges collected
\* in horizon.

StrictInputs ==
    {Flatten(t) : t \in {r \in [1 .. 6 -> RetriageSet] : Injective(r)} \cup {TieList}}

StrictInit ==
    /\ points \in StrictInputs
    /\ state = NoState
    /\ vertex = Undefined
    /\ horizon = <<>>
    /\ result = <<>>
    /\ raised = ""
    /\ pc = "quickhull3"

\* the tolerance of the state and the positive distances of vertex u to the faces
Tolerances(u) ==
    {state.tolerance}
    \cup {EyeDistance(f, u) : f \in {g \in 1 .. Len(state.faces) : EyeDistance(g, u).num > 0}}

WithTolerance(t) == [state EXCEPT !.tolerance = t]

\* the scan of the seed faces for vertex u (computeInitialHull, step 4)
ProbeInitialAssignment ==
    /\ pc = "loop"
    /\ Len(state.faces) = 4
    /\ \E u \in Vertices \ LiveVertices :
           \E t \in Tolerances(u) :
               /\ state' = WithTolerance(t)
               /\ vertex' = u
               /\ result' = <<FarthestFace(WithTolerance(t), u, 1,
                                           [maxDistance |-> t, maxFace |-> Undefined])>>
    /\ pc' = "computeInitialHull: assign"
    /\ UNCHANGED <<points, horizon, raised>>

\* the scan of the new faces for vertex u (resolveUnassignedPoints)
ProbeRetriage ==
    /\ pc = "loop"
    /\ state.newFaces # <<>>
    /\ \E u \in Vertices \ LiveVertices :
           \E t \in Tolerances(u) :
               /\ state' = WithTolerance(t)
               /\ vertex' = u
               /\ result' = <<ResolveFace(WithTolerance(t), state.newFaces, u, 1,
                                          [maxDistance |-> t, maxFace |-> Undefined])>>
    /\ pc' = "resolveUnassignedPoints: scan"
    /\ UNCHANGED <<points, horizon, raised>>

\* the horizon walk for eye vertex u from a face f that u lies beyond, after
\* the vertexListClear of addVertexToHull
ProbeHorizon ==
    /\ pc = "loop"
    /\ state.faces # <<>>
    /\ \E u \in Vertices \ LiveVertices :
           \E t \in Tolerances(u) :
               \E f \in {g \in 1 .. Len(state.faces) :
                            /\ state.faces[g].mark = VISIBLE
                            /\ Gt(EyeDistance(g, u), t)} :
                   \E ctx \in {computeHorizon([state |-> [WithTolerance(t) EXCEPT
                                                             !.unassigned = createVertexList],
                                               horizon |-> <<>>,
                                               raised |-> "",
                                               entered |-> <<>>, depth |-> 0, deepest |-> 0],
                                              u, UndefinedEdge, f)} :
                       /\ state' = ctx.state
                       /\ horizon' = ctx.horizon
                       /\ raised' = ctx.raised
                       /\ vertex' = u
    /\ pc' = "computeHorizon: walk"
    /\ UNCHANGED <<points, result>>

StrictNext ==
    \/ Quickhull3
    \/ ComputeInitialHull
    \/ ComputeHorizon
    \/ AddNewFaces
    \/ ResolveUnassignedPoints
    \/ Return
    \/ ProbeInitialAssignment
    \/ ProbeRetriage
    \/ ProbeHorizon

StrictSpec == StrictInit /\ [][StrictNext]_vars

\* -------------------------------------------------------------------- C24
\* distance d is the tolerance t exactly
Exactly(d, t) == CmpStd(d, t) = 0 /\ d.eps = t.eps

\* distance d is greater than the tolerance t
StrictlyBeyond(d, t) == CmpStd(d, t) > 0 \/ (CmpStd(d, t) = 0 /\ d.eps > t.eps)

\* 3 * Number.EPSILON * (the sum over the axes of the largest absolute coordinate)
LargestAbs(j) == CHOOSE m \in {AbsInt(points[3 * i + j]) : i \in Indices} :
                     \A i \in Indices : AbsInt(points[3 * i + j]) <= m
ExpectedTolerance == Epsilons(3 * (LargestAbs(1) + LargestAbs(2) + LargestAbs(3)))

\* the face a scan has chosen for the vertex out of the faces candidates lies
\* strictly beyond the tolerance, and none is chosen only when none does
ChosenStrictly(candidates) ==
    LET beyond == {f \in candidates :
                      StrictlyBeyond(EyeDistance(f, vertex'), state'.tolerance)}
    IN  IF beyond = {} THEN result'[1] = Undefined ELSE result'[1] \in beyond

C24_Step ==
    \* the tolerance is set once, by computeExtremes, and kept
    /\ (pc = "computeInitialHull" /\ pc' = "loop") =>
           /\ state'.tolerance = ExpectedTolerance
           /\ state'.tolerance.num = 0 /\ state'.tolerance.eps >= 0
    /\ (pc \in {"loop", "addNewFaces", "resolveUnassignedPoints"} /\ pc' \in Positions) =>
           state'.tolerance = state.tolerance
    \* a vertex in an outside list is strictly beyond the tolerance of its face
    /\ pc' \in {"loop", "addNewFaces", "resolveUnassignedPoints"} =>
           \A u \in Members(state.assigned)' :
               StrictlyBeyond(faceDistanceToPoint(state'.faces[state'.vertices[u].face],
                                                  state'.points, u),
                              state'.tolerance)
    \* the scans
    /\ pc' = "computeInitialHull: assign" => ChosenStrictly(1 .. 4)
    /\ pc' = "resolveUnassignedPoints: scan" =>
           ChosenStrictly({state.newFaces[k] : k \in 1 .. Len(state.newFaces)})
    \* the walk: a face entered is strictly beyond, a face across a horizon edge is not
    /\ (pc' = "computeHorizon: walk" /\ raised' = "") =>
           /\ \A f \in 1 .. Len(state.faces) :
                  (state.faces[f].mark = VISIBLE /\ state'.faces[f].mark = DELETED) =>
                      StrictlyBeyond(EyeDistance(f, vertex'), state'.tolerance)
           /\ \A k \in 1 .. Len(horizon') :
                  /\ state'.faces[EdgeOf(state.faces, horizon'[k]).twin[1]].mark = VISIBLE
                  /\ ~StrictlyBeyond(EyeDistance(EdgeOf(state.faces, horizon'[k]).twin[1],
                                                 vertex'),
                                     state'.tolerance)

\* C24: the comparison with the tolerance is strict everywhere: a point whose
\* signed distance to a face equals the tolerance exactly is not added to
\* that face's outside list, at the initial assignment or at re-triage, and
\* the face is not treated as visible from it in the horizon walk; the
\* tolerance is one non-negative scalar, fixed before the seed is built and
\* unchanged for the rest of the run.
C24_StrictTolerance == [][C24_Step]_vars

\* a scan has met a face at exactly the tolerance from the vertex, the
\* tolerance a distance greater than 0, and has not chosen that face
C24_Witness ==
    /\ pc \in {"computeInitialHull: assign", "resolveUnassignedPoints: scan"}
    /\ state.tolerance.num > 0
    /\ \E f \in 1 .. Len(state.faces) :
           /\ state.faces[f].mark = VISIBLE
           /\ Exactly(EyeDistance(f, vertex), state.tolerance)
           /\ result[1] # f

\* -------------------------------------------------------------------- C25
\* the three vertices of face f
FaceVertices(f) == {halfEdgeHead(state.faces, <<f, k>>) : k \in 0 .. 2}

\* the seed vertices are four points off one plane
SeedOffPlane ==
    \E u \in LiveVertices :
        Orient(halfEdgeHead(state.faces, <<1, 0>>), halfEdgeHead(state.faces, <<1, 1>>),
               halfEdgeHead(state.faces, <<1, 2>>), u) # 0

\* the half-edges of the four seed faces
SeedEdges == (1 .. 4) \X (0 .. 2)

\* C25: whichever side of the base plane v3 lies on, each of the four seed
\* faces is wound so that the seed vertex that is not on it has a non-positive
\* signed distance to it, strictly negative when the four seed points are
\* not coplanar, and the four faces are pairwise twinned along all six edges.
C25_SeedOrientation ==
    SeedBuilt =>
        /\ \A f \in 1 .. 4 :
               \A u \in LiveVertices \ FaceVertices(f) :
                   /\ ~Gt(EyeDistance(f, u), Whole(0))
                   /\ SeedOffPlane => Lt(EyeDistance(f, u), Whole(0))
        /\ \A e \in SeedEdges :
               /\ EdgeOf(state.faces, e).twin \in SeedEdges
               /\ EdgeOf(state.faces, e).twin[1] # e[1]
               /\ EdgeOf(state.faces, EdgeOf(state.faces, e).twin).twin = e
               /\ halfEdgeHead(state.faces, EdgeOf(state.faces, e).twin)
                      = halfEdgeTail(state.faces, e)
               /\ halfEdgeTail(state.faces, EdgeOf(state.faces, e).twin)
                      = halfEdgeHead(state.faces, e)
        /\ \A f, g \in 1 .. 4 :
               f # g => Cardinality({e \in SeedEdges :
                                        e[1] = f /\ EdgeOf(state.faces, e).twin[1] = g}) = 1

\* v3 lies on the side the normal of the plane v0 v1 v2 points to, so the
\* seed is built as (v0, v2, v1), (v3, v0, v1), ...: the second vertex of face 2
\* is the first of face 1; and the seed is not flat
C25_Witness ==
    /\ SeedBuilt
    /\ SeedOffPlane
    /\ halfEdgeHead(state.faces, <<2, 1>>) = halfEdgeHead(state.faces, <<1, 0>>)

\* -------------------------------------------------------------------- C26
\* the faces marked VISIBLE, in the order of state.faces
VisibleFaces ==
    SelectSeq([f \in 1 .. Len(state.faces) |-> f], LAMBDA f : state.faces[f].mark = VISIBLE)

\* the loop has ended and quickhull3 returns
ReturnStep == pc = "loop" /\ pc' = "returned"

C26_Step ==
    \* a face is created VISIBLE and a mark goes from VISIBLE to DELETED only
    /\ pc' # "returned" =>
           /\ Len(state'.faces) >= Len(state.faces)
           /\ \A f \in 1 .. Len(state'.faces) :
                  /\ state'.faces[f].mark \in {VISIBLE, DELETED}
                  /\ f > Len(state.faces) => state'.faces[f].mark = VISIBLE
                  /\ (f <= Len(state.faces) /\ state.faces[f].mark = DELETED) =>
                         state'.faces[f].mark = DELETED
    \* the output is the VISIBLE faces, one triangle each, heads in cycle order
    /\ ReturnStep =>
           /\ Len(result') = 3 * Len(VisibleFaces)
           /\ \A k \in 1 .. Len(VisibleFaces) :
                  \A j \in 0 .. 2 :
                      result'[3 * (k - 1) + j + 1]
                          = halfEdgeHead(state.faces, <<VisibleFaces[k], j>>)

\* C26: a face's mark only ever changes from VISIBLE to DELETED and never
\* back; a DELETED face is never emitted: the output consists of exactly the
\* faces still marked VISIBLE when the loop ends, one triangle per face, with
\* the three head vertices of its half-edges in cycle order.
C26_FaceLifecycle == [][C26_Step]_vars

\* the loop has ended with DELETED faces among the faces, before they are
\* filtered out
C26_Witness ==
    /\ pc = "loop"
    /\ vertex = Undefined
    /\ Len(VisibleFaces) >= 6
    /\ Len(VisibleFaces) < Len(state.faces)

\* -------------------------------------------------------------------- C27
\* the faces that computeHorizon marks DELETED in this step
NewlyMarked ==
    IF pc' = "returned" THEN {}
    ELSE {f \in 1 .. Len(state.faces) :
             state.faces[f].mark = VISIBLE /\ state'.faces[f].mark = DELETED}

\* a DELETED face has no outside pointer and owns no vertex of the assigned list
DeletedOwnNothing ==
    pc # "returned" =>
        /\ \A f \in 1 .. Len(state.faces) :
               state.faces[f].mark = DELETED => state.faces[f].outside = Undefined
        /\ \A v \in Members(state.assigned) :
               state.faces[state.vertices[v].face].mark = VISIBLE

\* the outside vertices of the faces marked in this step, the eye vertex
\* (taken out by addVertexToHull before the walk) apart, have gone from the
\* assigned list to the unassigned list
C27_Step ==
    \A f \in NewlyMarked :
        /\ OutsideRun(f) # {} => OutsideRun(f) \subseteq Members(state.assigned)
        /\ (OutsideRun(f) \ {vertex}) \cap Members(state.assigned)' = {}
        /\ (OutsideRun(f) \ {vertex}) \subseteq Members(state.unassigned)'

\* C27: a DELETED face owns no outside points: when computeHorizon marks a
\* face DELETED the vertices of its outside list have been moved out of the
\* assigned list into the unassigned list and face.outside is cleared, so
\* after every step every vertex in the assigned list is owned by a VISIBLE
\* face.
C27_DeletedOwnsNoPoints == []DeletedOwnNothing /\ [][C27_Step]_vars

\* the walk has deleted two faces and orphaned outside vertices of theirs
C27_Witness ==
    /\ pc = "addNewFaces"
    /\ Cardinality({f \in 1 .. Len(state.faces) : state.faces[f].mark = DELETED}) >= 2
    /\ Cardinality(Members(state.unassigned)) >= 2
    /\ Members(state.assigned) # {}

\* -------------------------------------------------------------------- C28
\* the walk that addVertexToHull makes from this state for the eye vertex
HorizonWalk ==
    computeHorizon([state |-> removeVertexFromFace(
                                  [state EXCEPT !.unassigned = createVertexList],
                                  vertex, state.vertices[vertex].face),
                    horizon |-> <<>>,
                    raised |-> "",
                    entered |-> <<>>, depth |-> 0, deepest |-> 0],
                   vertex, UndefinedEdge, state.vertices[vertex].face)

\* the faces visible from the eye vertex before the walk
VisibleFromEye ==
    {f \in 1 .. Len(state.faces) :
        /\ state.faces[f].mark = VISIBLE
        /\ Gt(faceDistanceToPoint(state.faces[f], state.points, vertex), state.tolerance)}

\* an insertion begins: the step is the walk of computeHorizon
WalkStep == pc = "loop" /\ pc' \in {"addNewFaces", "raised"}

C28_Step ==
    WalkStep =>
        \E w \in {HorizonWalk} :
            /\ w.state = state'
            /\ w.depth = 0
            \* entered at most once per face
            /\ \A i, j \in 1 .. Len(w.entered) : w.entered[i] = w.entered[j] => i = j
            \* every call is on a face that was VISIBLE and is DELETED afterwards
            /\ {w.entered[i] : i \in 1 .. Len(w.entered)} = NewlyMarked
            \* calls and depth are bounded by the faces visible from the eye
            /\ Len(w.entered) <= Cardinality(VisibleFromEye)
            /\ w.deepest <= Cardinality(VisibleFromEye)

\* C28: the recursive horizon walk terminates: computeHorizon is entered at
\* most once per face during one insertion, so the recursion depth and the
\* number of calls are bounded by the number of faces visible from the eye
\* vertex.
C28_WalkBounded == [][C28_Step]_vars

\* the eye vertex sees four faces and the walk nests four calls
C28_Witness ==
    /\ pc = "loop"
    /\ vertex # Undefined
    /\ Cardinality(VisibleFromEye) >= 4
    /\ \E w \in {HorizonWalk} : Len(w.entered) >= 4 /\ w.deepest >= 4

\* -------------------------------------------------------------------- C29
\* the nodes met from vertex v along next, in order
RECURSIVE ChainSeq(_, _, _)
ChainSeq(vertices, v, acc) ==
    IF v = Undefined \/ (\E i \in 1 .. Len(acc) : acc[i] = v) THEN acc
    ELSE ChainSeq(vertices, vertices[v].next, Append(acc, v))

\* the places of the sequence whose vertex is owned by face f
PlacesOf(st, seq, f) == {i \in 1 .. Len(seq) : st.vertices[seq[i]].face = f}

\* the places of face f in the assigned list are one run, and faces[f].outside
\* is its first vertex, or undefined when there is none
GroupedIn(st, seq, f) ==
    \E run \in {PlacesOf(st, seq, f)} :
        /\ \A i, j \in run : \A k \in i .. j : k \in run
        /\ (run = {}) <=> (st.faces[f].outside = Undefined)
        /\ \A i \in run : (\A j \in run : i <= j) => st.faces[f].outside = seq[i]

\* the assigned list of hull state st is grouped by face
Grouped(st) ==
    \E seq \in {ChainSeq(st.vertices, st.assigned.head, <<>>)} :
        /\ \A f \in 1 .. Len(st.faces) : GroupedIn(st, seq, f)
        /\ Len(seq) > 0 => st.faces[st.vertices[seq[1]].face].outside = seq[1]

\* the calls that the next handler may make from this state leave the list
\* grouped: removeVertexFromFace on a listed vertex and
\* removeAllVerticesFromFace on a face at the start of an insertion,
\* addVertexToFace of an orphaned vertex to a new face before the re-triage
GroupedAfterCalls ==
    /\ (pc = "loop" /\ vertex # Undefined) =>
           /\ \A v \in Members(state.assigned) :
                  Grouped(removeVertexFromFace(state, v, state.vertices[v].face))
           /\ \A f \in 1 .. Len(state.faces) :
                  Grouped(removeAllVerticesFromFace(state, f).state)
    /\ pc = "resolveUnassignedPoints" =>
           \A v \in Members(state.unassigned) :
               \A k \in 1 .. Len(state.newFaces) :
                   Grouped(addVertexToFace(state, v, state.newFaces[k]))

\* C29: the assigned list is grouped by face: the vertices of the assigned
\* list owned by one face form a single contiguous run, face.outside is the
\* first vertex of that run and is undefined exactly when the face owns no
\* vertex of the list; the head of the list is the outside pointer of its own
\* face. It holds after every handler and after every addVertexToFace,
\* removeVertexFromFace and removeAllVerticesFromFace called from there.
C29_GroupedByFace ==
    pc \notin {"quickhull3", "returned"} => Grouped(state) /\ GroupedAfterCalls

\* two faces own vertices of the assigned list, and a run of two or more
\* vertices lies behind the run at the head of the list
C29_Witness ==
    /\ pc = "loop"
    /\ Cardinality({state.vertices[v].face : v \in Members(state.assigned)}) >= 2
    /\ \E f \in 1 .. Len(state.faces) :
           Cardinality(OutsideRun(f)) >= 2 /\ state.assigned.head \notin OutsideRun(f)

\* -------------------------------------------------------------------- C30
\* the places <<t, k>> of the output where the directed edge i -> j occurs:
\* triangle t (from 0), its k-th entry i and the entry after it in the cycle j
Occurrences(i, j) ==
    {tk \in (0 .. NumFaces - 1) \X (1 .. 3) :
        /\ result[3 * tk[1] + tk[2]] = i
        /\ result[3 * tk[1] + (tk[2] % 3) + 1] = j}

\* C30: every non-empty output of quickhull3 is a closed, consistently
\* oriented triangle mesh: each directed edge (i -> j) taken from the output
\* triangles occurs in exactly one output triangle, and its reverse (j -> i)
\* occurs in exactly one other output triangle.
C30_ClosedOrientedMesh ==
    (pc = "returned" /\ result # <<>>) =>
        \A i, j \in UsedIndices :
            \A tk \in Occurrences(i, j) :
                /\ Occurrences(i, j) = {tk}
                /\ \E rev \in Occurrences(j, i) :
                       /\ Occurrences(j, i) = {rev}
                       /\ rev[1] # tk[1]

\* a mesh of eight triangles or more in which five triangles meet at an index
C30_Witness ==
    /\ pc = "returned"
    /\ NumFaces >= 8
    /\ \E i \in UsedIndices :
           Cardinality({t \in 0 .. NumFaces - 1 :
                           \E k \in 1 .. 3 : result[3 * t + k] = i}) >= 5

====
